---- MODULE Spec2Model ----
(***************************************************************************)
(* Wind-driven attribution engine of the Sentinel-5P Delhi air-quality     *)
(* pipeline: regime classification, monthly alignment of wind and          *)
(* pollutant series, backward trajectory integration, severe-episode       *)
(* detection (src/scripts/trajectory_analysis.py, src/scripts/             *)
(* process_era5.py), hotspot detection, clustering and source mapping      *)
(* (src/scripts/hotspot_analysis.py), the trajectory of the attribution    *)
(* maps (src/scripts/create_source_attribution.py) and the pipeline        *)
(* runner (src/run_analysis.py).                                           *)
(*                                                                         *)
(* Floating-point quantities are fixed-point integers in thousandths:      *)
(* wind components and speeds in mm/s, angles and coordinates in           *)
(* millidegrees.  A missing value (numpy NaN) is the value NaN; every      *)
(* comparison with NaN is false and every arithmetic result with a NaN     *)
(* operand is NaN, as in IEEE arithmetic.  Time is counted in hours.       *)
(***************************************************************************)
EXTENDS Integers, Sequences, FiniteSets, TLC

VARIABLES
    pc,             \* position of the running function
    u_wind,         \* calculate_wind_regime: argument u_wind
    v_wind,         \* calculate_wind_regime: argument v_wind
    regime,         \* calculate_wind_regime: returned label
    era5_data,      \* the merged wind field (time index and gridded winds)
    start_lon,      \* calculate_back_trajectory: argument start_lon
    start_lat,      \* calculate_back_trajectory: argument start_lat
    start_time,     \* calculate_back_trajectory: argument start_time
    hours_back,     \* calculate_back_trajectory: argument hours_back
    hour,           \* calculate_back_trajectory: loop variable of line 214
    current_lon,    \* calculate_back_trajectory: local current_lon
    current_lat,    \* calculate_back_trajectory: local current_lat
    trajectory,     \* calculate_back_trajectory: list of waypoints
    raise_step,     \* the hour of the step whose sampling raises, or -1
    pollutant_data, \* the pollutant time series (date, value)
    wind_df,        \* classify_pollution_regime: monthly wind table
    result,         \* classify_pollution_regime: the classified series
    threshold_percentile, \* analyze_severe_episodes: argument
    threshold,      \* analyze_severe_episodes: 100 x the percentile value
    severe_days,    \* analyze_severe_episodes: the selected records
    episode,        \* analyze_severe_episodes: position of the loop of line 284
    composite,      \* hotspot_analysis: the monthly composite dataset
    percentile_threshold, \* calculate_persistent_hotspots: argument
    mean_data,      \* calculate_persistent_hotspots: temporal mean per cell
    hotspots,       \* the hotspot mask, or the value returned instead
    source_df,      \* identify_source_regions: the table of hotspot cells
    source_k,       \* identify_source_regions: position of the loops of line 117
    hotspot_coords, \* cluster_hotspots: argument, the (lon, lat) points
    eps_km,         \* cluster_hotspots: argument
    labels,         \* cluster_hotspots: the labels returned
    output_file,    \* hotspot_analysis.main: rows written to the csv file
    daily_files,    \* load_all_era5_daily: the *_daily.nc files in name order
    datasets,       \* load_all_era5_daily: the datasets loaded so far
    file_k,         \* load_all_era5_daily: position of the loop of line 41
    ts_files,       \* trajectory_analysis.main: the time-series file of each pollutant
    code,           \* main of a stage: position in the list of pollutants
    saved,          \* main of a stage: pollutants whose results were saved
    step,           \* run_analysis.main: the --step argument
    failing,        \* run_analysis: the stages whose underlying step raises
    log,            \* run_analysis: the stages entered and the reports printed
    directory,      \* process_all_era5: the file names of the directory
    corrupt,        \* process_all_era5: the files xarray cannot process
    nc_files,       \* process_all_era5: the sorted input names of the run
    nc_k,           \* process_all_era5: position of the loop of line 128
    processed_files,\* process_all_era5: the list returned
    first_files,    \* the list returned by the first run over the directory
    written,        \* the files written by to_netcdf during the current run
    run             \* number of the run over the directory

regimeVars == <<u_wind, v_wind, regime>>
trajVars == <<start_lon, start_lat, start_time, hours_back, hour,
              current_lon, current_lat, trajectory, raise_step>>

classifyVars == <<pollutant_data, wind_df, result>>

episodeVars == <<threshold_percentile, threshold, severe_days, episode>>

hotspotVars == <<composite, percentile_threshold, mean_data, hotspots,
                 source_df, source_k, hotspot_coords, eps_km, labels,
                 output_file>>

loadVars == <<daily_files, datasets, file_k>>

stageVars == <<ts_files, code, saved>>

runVars == <<step, failing, log>>

processVars == <<directory, corrupt, nc_files, nc_k, processed_files,
                 first_files, written, run>>

pipelineVars == <<loadVars, stageVars, runVars, processVars>>

vars == <<pc, regimeVars, era5_data, trajVars, classifyVars, episodeVars,
          hotspotVars, pipelineVars>>

(***************************************************************************)
(* Bounds of the model                                                     *)
(***************************************************************************)
\* wind components of the classifier's inputs range over -MaxWind..MaxWind m/s
MaxWind == 6

(***************************************************************************)
(* Floating point                                                          *)
(***************************************************************************)
\* the missing value
NaN == -2000000000

IsNaN(x) == x = NaN

\* IEEE comparisons: false as soon as an operand is missing
FLt(a, b) == a # NaN /\ b # NaN /\ a < b
FLe(a, b) == a # NaN /\ b # NaN /\ a <= b
FGe(a, b) == a # NaN /\ b # NaN /\ a >= b

Abs(x) == IF x < 0 THEN -x ELSE x

\* x / y rounded to the nearest thousandth unit (ties away from zero), y > 0
RoundDiv(x, y) ==
    IF x >= 0 THEN (2 * x + y) \div (2 * y)
    ELSE -((2 * (-x) + y) \div (2 * y))

RECURSIVE SqrtSearch(_, _, _)
\* the largest r in lo..hi with r * r <= x
SqrtSearch(x, lo, hi) ==
    IF lo >= hi THEN lo
    ELSE LET mid == (lo + hi + 1) \div 2
         IN IF mid * mid <= x THEN SqrtSearch(x, mid, hi)
            ELSE SqrtSearch(x, lo, mid - 1)

\* np.sqrt on a non-negative fixed-point square (rounded down)
Sqrt(x) == SqrtSearch(x, 0, 46000)

\* np.arctan(p / q) in millidegrees for 0 <= p <= q, q > 0: exactly 0 at
\* p = 0 and exactly 45000 at p = q, strictly between otherwise; the curve
\* between is the quadratic-corrected approximation
\*   atan t = 45 t - t (t - 1) (14.020 + 3.799 t) degrees  (error < 0.1)
ArctanOctant(p, q) ==
    LET t == (p * 1000) \div q
        c == 14020 + (3799 * t) \div 1000
    IN 45 * t + (((t * (1000 - t)) \div 1000) * c) \div 1000

\* np.arctan2(y, x) * 180 / np.pi in millidegrees, in (-180000, 180000];
\* y = x = 0 is the floating-point case arctan2(-0.0, -0.0) = -pi that the
\* callers reach by negating zero components
Arctan2Deg(y, x) ==
    IF x = 0 /\ y = 0 THEN -180000
    ELSE LET a == Abs(y)
             b == Abs(x)
             first == IF a <= b THEN ArctanOctant(a, b)
                      ELSE 90000 - ArctanOctant(b, a)
             half == IF x >= 0 THEN first ELSE 180000 - first
         IN IF y >= 0 THEN half ELSE -half

\* np.sqrt(u**2 + v**2)
WindSpeed(u, v) ==
    IF IsNaN(u) \/ IsNaN(v) THEN NaN ELSE Sqrt(u * u + v * v)

\* (np.arctan2(-u, -v) * 180 / np.pi + 360) % 360: direction the wind comes from
WindDirection(u, v) ==
    IF IsNaN(u) \/ IsNaN(v) THEN NaN
    ELSE (Arctan2Deg(-u, -v) + 360000) % 360000

(***************************************************************************)
(* RegimeClassifier: calculate_wind_regime                                 *)
(***************************************************************************)
wind_speed_threshold == 4000

Regimes == {"local", "advected_north", "advected_east", "advected_south",
            "advected_west", "advected_other"}

\* DirectionRegime with each boundary value left in the lower bucket
DirectionRegime_BoundaryLow(wind_dir) ==
    IF FLt(315000, wind_dir) \/ FLe(wind_dir, 45000) THEN "advected_north"
    ELSE IF FLt(45000, wind_dir) /\ FLe(wind_dir, 135000) THEN "advected_east"
    ELSE IF FLt(135000, wind_dir) /\ FLe(wind_dir, 225000) THEN "advected_south"
    ELSE IF FLt(225000, wind_dir) /\ FLe(wind_dir, 315000) THEN "advected_west"
    ELSE "advected_other"

\* the direction test of lines 84-93
DirectionRegime(wind_dir) ==
    IF FLe(315000, wind_dir) \/ FLt(wind_dir, 45000) THEN "advected_north"
    ELSE IF FLe(45000, wind_dir) /\ FLt(wind_dir, 135000) THEN "advected_east"
    ELSE IF FLe(135000, wind_dir) /\ FLt(wind_dir, 225000) THEN "advected_south"
    ELSE IF FLe(225000, wind_dir) /\ FLt(wind_dir, 315000) THEN "advected_west"
    ELSE "advected_other"

\* IsLowWind with the square root forgotten: u^2 + v^2 (in m^2/s^2) is
\* compared with the threshold
IsLowWind_NoSqrt(u, v) ==
    u # NaN /\ v # NaN /\ FLt((u * u + v * v) \div 1000, wind_speed_threshold)

\* the speed test of lines 73-77
IsLowWind(u, v) == FLt(WindSpeed(u, v), wind_speed_threshold)

calculate_wind_regime(u, v) ==
    IF IsLowWind(u, v) THEN "local"
    ELSE DirectionRegime(WindDirection(u, v))

(***************************************************************************)
(* Values of the variables a specification does not use                    *)
(***************************************************************************)
NoField == [time |-> <<>>, wind |-> <<>>]

RegimeIdle == u_wind = NaN /\ v_wind = NaN /\ regime = "none"

TrajIdle ==
    /\ start_lon = NaN /\ start_lat = NaN /\ start_time = 0
    /\ hours_back = 0 /\ hour = 0
    /\ current_lon = NaN /\ current_lat = NaN
    /\ trajectory = <<>> /\ raise_step = -1

ClassifyIdle == pollutant_data = <<>> /\ wind_df = <<>> /\ result = <<>>

EpisodeIdle ==
    /\ threshold_percentile = 0 /\ threshold = NaN
    /\ severe_days = <<>> /\ episode = 0

NoComposite == [dims |-> {}, values |-> <<>>]

LoadIdle == daily_files = <<>> /\ datasets = <<>> /\ file_k = 0

StageIdle == ts_files = <<>> /\ code = 0 /\ saved = <<>>

RunIdle == step = "none" /\ failing = {} /\ log = <<>>

ProcessIdle ==
    /\ directory = {} /\ corrupt = {} /\ nc_files = <<>> /\ nc_k = 0
    /\ processed_files = <<>> /\ first_files = <<>> /\ written = <<>>
    /\ run = 0

PipelineIdle == LoadIdle /\ StageIdle /\ RunIdle /\ ProcessIdle

HotspotIdle ==
    /\ composite = NoComposite /\ percentile_threshold = 0
    /\ mean_data = <<>> /\ hotspots = <<>>
    /\ source_df = <<>> /\ source_k = 0
    /\ hotspot_coords = <<>> /\ eps_km = 0 /\ labels = <<>>
    /\ output_file = <<>>

(***************************************************************************)
(* Specification of the classifier: any wind vector, then one call         *)
(***************************************************************************)
WindValues == {1000 * k : k \in -MaxWind..MaxWind} \cup {NaN}

InitRegime ==
    /\ pc = "regime_call"
    /\ PipelineIdle
    /\ HotspotIdle
    /\ u_wind \in WindValues
    /\ v_wind \in WindValues
    /\ regime = "none"
    /\ era5_data = NoField
    /\ TrajIdle
    /\ ClassifyIdle
    /\ EpisodeIdle

CallWindRegime ==
    /\ pc = "regime_call"
    /\ regime' = calculate_wind_regime(u_wind, v_wind)
    /\ pc' = "regime_done"
    /\ UNCHANGED <<pipelineVars, hotspotVars, u_wind, v_wind, era5_data, trajVars, classifyVars, episodeVars>>

NextRegime == CallWindRegime

SpecRegime == InitRegime /\ [][NextRegime]_vars

\* the call has returned for a defined wind vector
RegimeReturnedDefined ==
    pc = "regime_done" /\ u_wind # NaN /\ v_wind # NaN

\* speed below / at or above the threshold, without the square root
SpeedBelowThreshold ==
    u_wind * u_wind + v_wind * v_wind < wind_speed_threshold * wind_speed_threshold

\* the bucket of the wind-from vector (-u, -v) by exact octant geometry, the
\* angle d measured clockwise from north: [315,360) u [0,45) north,
\* [45,135) east, [135,225) south, [225,315) west
ExactBucket(u, v) ==
    LET fe == -u
        fn == -v
    IN IF fn > 0 /\ -fn <= fe /\ fe < fn THEN "advected_north"
       ELSE IF fe > 0 /\ -fe < fn /\ fn <= fe THEN "advected_east"
       ELSE IF fn < 0 /\ fn < fe /\ fe <= -fn THEN "advected_south"
       ELSE IF fe < 0 /\ fe <= fn /\ fn < -fe THEN "advected_west"
       ELSE "none"

\* C1: every defined wind vector, (0, 0) included, whose speed is strictly
\* below the threshold is classified 'local', whatever the signs of u and v
C1_LowWindIsLocal ==
    (RegimeReturnedDefined /\ SpeedBelowThreshold) => regime = "local"

C1_Witness ==
    /\ RegimeReturnedDefined /\ SpeedBelowThreshold
    /\ u_wind < 0 /\ v_wind > 0 /\ regime = "local"

\* C2: every defined wind vector with speed >= threshold gets exactly the
\* advected_north / east / south / west label of its wind-from direction
\* (never 'local', never 'advected_other'), the boundary directions 45, 135,
\* 225 and 315 going to east, south, west and north
C2_DirectionBuckets ==
    (RegimeReturnedDefined /\ ~SpeedBelowThreshold) =>
        /\ regime = ExactBucket(u_wind, v_wind)
        /\ regime \in {"advected_north", "advected_east", "advected_south",
                        "advected_west"}

\* a wind from exactly 45 degrees at or above the threshold is labelled east
C2_Witness ==
    /\ RegimeReturnedDefined /\ ~SpeedBelowThreshold
    /\ u_wind = v_wind /\ u_wind < 0 /\ regime = "advected_east"

(***************************************************************************)
(* WindField: time index, mesh and gridded daily winds                     *)
(***************************************************************************)
\* the field holds NDays daily timestamps
NDays == 2

\* hours_back ranges over -6 and 0..MaxHoursBack
MaxHoursBack == 13

\* config.DELHI_CENTER, in millidegrees
DELHI_CENTER == [lon |-> 77209, lat |-> 28614]

\* the mesh of the wind grids: latitude and longitude coordinates
GridLat == <<28500, 30500>>
GridLon == <<77250>>

\* process_era5_month: the daily cell with its derived speed and direction
DailyCell(u, v) ==
    [u |-> u, v |-> v,
     wind_speed |-> WindSpeed(u, v),
     wind_direction |-> WindDirection(u, v)]

\* the daily winds the fields of the trajectory specification are built from
TrajWinds == {DailyCell(0, -10000), DailyCell(3000, 2000), DailyCell(-5000, 0)}

\* daily timestamps, in hours: one per day, or the first day stored twice
\* (two period files that overlap)
RegularTimes == [d \in 1..NDays |-> 24 * d]
OverlapTimes == [d \in 1..NDays |-> IF d = 1 THEN 24 ELSE 24 * (d - 1)]

\* fields with a wind in every cell of every day
CompleteFields ==
    {[time |-> t, wind |-> w] :
        t \in {RegularTimes, OverlapTimes},
        w \in [1..NDays -> [1..Len(GridLat) -> [1..Len(GridLon) -> TrajWinds]]]}

\* a daily cell whose winds are missing
MissingCell == DailyCell(NaN, NaN)

\* fields with one day whose winds are missing in every cell, the other
\* days holding one wind in every cell
MissingDayFields ==
    {[time |-> RegularTimes,
      wind |-> [d \in 1..NDays |-> [i \in 1..Len(GridLat) |->
                   [j \in 1..Len(GridLon) |->
                       IF d = gap THEN MissingCell ELSE w]]]] :
        gap \in 1..NDays, w \in TrajWinds}

TrajFields == CompleteFields \cup MissingDayFields

HasDuplicates(index) ==
    \E i, j \in 1..Len(index) : i < j /\ index[i] = index[j]

\* pandas nearest lookup on an increasing index: the position of the
\* coordinate nearest to x, the later one on a tie.  A missing x reaches
\* this lookup only in fields that are uniform in space, where the position
\* returned does not show; a lookup that raises is a step that raises
NearestIndex(coords, x) ==
    IF x = NaN THEN 1 ELSE
    CHOOSE i \in 1..Len(coords) :
        \A j \in 1..Len(coords) :
            \/ Abs(coords[i] - x) < Abs(coords[j] - x)
            \/ Abs(coords[i] - x) = Abs(coords[j] - x) /\ i >= j

\* era5_data.sel(time, latitude, longitude, method='nearest')
SelNearest(field, t, lat, lon) ==
    field.wind[NearestIndex(field.time, t)]
              [NearestIndex(GridLat, lat)]
              [NearestIndex(GridLon, lon)]

(***************************************************************************)
(* TrajectoryIntegrator: calculate_back_trajectory                         *)
(***************************************************************************)
range_step == 6
dt_hours == 6
metres_per_degree == 111320

\* np.cos(np.radians(lat)) in thousandths, by the Taylor polynomial
\* 1 - x^2/2 + x^4/24 - x^6/720 of x in milliradians
CosMilli(lat) ==
    LET x == (Abs(lat) * 17453) \div 1000000
        x2 == (x * x) \div 1000
        x4 == (x2 * x2) \div 1000
        x6 == (x4 * x2) \div 1000
    IN 1000 - x2 \div 2 + x4 \div 24 - x6 \div 720

\* line 232: current_lon - (u * dt_hours * 3600) / (111320 * cos(lat))
AdvectLon(lon, lat, u) ==
    IF lon = NaN \/ lat = NaN \/ u = NaN THEN NaN
    ELSE lon - RoundDiv(u * dt_hours * 3600,
                        (metres_per_degree * CosMilli(lat)) \div 1000)

\* AdvectLat moving with the wind instead of against it
AdvectLat_Downwind(lat, v) ==
    IF lat = NaN \/ v = NaN THEN NaN
    ELSE lat + RoundDiv(v * dt_hours * 3600, metres_per_degree)

\* line 233: current_lat - (v * dt_hours * 3600) / 111320
AdvectLat(lat, v) ==
    IF lat = NaN \/ v = NaN THEN NaN
    ELSE lat - RoundDiv(v * dt_hours * 3600, metres_per_degree)

\* lines 219-227 raise: the lookup refuses a time index with duplicates, or
\* the sampling of the step at hour rs fails for a cause outside the program
SelRaises(field, h, rs) ==
    HasDuplicates(field.time) \/ h = rs

\* range(0, hours_back + 1, 6): the range with its end included
InRange_Inclusive(h, hb) == h <= hb

\* line 214: h is still in range(0, hours_back, 6)
InRange(h, hb) == h < hb

\* Waypoint whose longitude update uses the latitude after the step
Waypoint_NewLatitude(field, t0, h, lon, lat) ==
    LET time_step == t0 - h
        wind == SelNearest(field, time_step, lat, lon)
    IN [time |-> time_step,
        lon |-> AdvectLon(lon, AdvectLat(lat, wind.v), wind.u),
        lat |-> AdvectLat(lat, wind.v),
        u_wind |-> wind.u,
        v_wind |-> wind.v]

\* lines 215-241 for one step that does not raise: the waypoint appended
Waypoint(field, t0, h, lon, lat) ==
    LET time_step == t0 - h
        wind == SelNearest(field, time_step, lat, lon)
    IN [time |-> time_step,
        lon |-> AdvectLon(lon, lat, wind.u),
        lat |-> AdvectLat(lat, wind.v),
        u_wind |-> wind.u,
        v_wind |-> wind.v]

RECURSIVE TrajectoryFrom(_, _, _, _, _, _, _, _)
\* the loop of lines 214-243 from hour h on, acc being the waypoints so far
TrajectoryFrom(field, t0, hb, rs, h, lon, lat, acc) ==
    IF ~InRange(h, hb) \/ SelRaises(field, h, rs) THEN acc
    ELSE LET w == Waypoint(field, t0, h, lon, lat)
         IN TrajectoryFrom(field, t0, hb, rs, h + range_step, w.lon, w.lat,
                           Append(acc, w))

\* the function as a whole: the waypoints it returns
calculate_back_trajectory(field, lon, lat, t0, hb, rs) ==
    TrajectoryFrom(field, t0, hb, rs, 0, lon, lat, <<>>)

\* create_source_attribution.py lines 111-113: the steps in degrees
SimpleLonStep(lat, u) ==
    IF lat = NaN \/ u = NaN THEN NaN
    ELSE -RoundDiv(u * dt_hours * 3600,
                   (metres_per_degree * CosMilli(lat)) \div 1000)

\* SimpleLatStep without the sign
SimpleLatStep_Downwind(v) ==
    IF v = NaN THEN NaN ELSE RoundDiv(v * dt_hours * 3600, metres_per_degree)

SimpleLatStep(v) ==
    IF v = NaN THEN NaN ELSE -RoundDiv(v * dt_hours * 3600, metres_per_degree)

\* a + b, missing when an operand is
FAdd(a, b) == IF a = NaN \/ b = NaN THEN NaN ELSE a + b

\* create_source_attribution.py lines 91-124 for one step that does not
\* raise: the waypoint appended
SimpleWaypoint(field, t0, h, lon, lat) ==
    LET time_step == t0 - h
        wind == SelNearest(field, time_step, lat, lon)
    IN [time |-> time_step,
        lon |-> FAdd(lon, SimpleLonStep(lat, wind.u)),
        lat |-> FAdd(lat, SimpleLatStep(wind.v)),
        u_wind |-> wind.u,
        v_wind |-> wind.v]

RECURSIVE SimpleFrom(_, _, _, _, _, _, _, _)
\* create_source_attribution.py lines 90-127: the loop from hour h on
SimpleFrom(field, t0, hb, rs, h, lon, lat, acc) ==
    IF ~(h < hb) \/ SelRaises(field, h, rs) THEN acc
    ELSE LET w == SimpleWaypoint(field, t0, h, lon, lat)
         IN SimpleFrom(field, t0, hb, rs, h + range_step, w.lon, w.lat,
                       Append(acc, w))

\* create_source_attribution.py lines 63-129
calculate_back_trajectory_simple(field, lon, lat, t0, hb, rs) ==
    SimpleFrom(field, t0, hb, rs, 0, lon, lat, <<>>)

HoursBackValues == {-6} \cup 0..MaxHoursBack

RaiseSteps == {-1} \cup {h \in 0..MaxHoursBack : h % range_step = 0}

InitTraj ==
    /\ pc = "traj_loop"
    /\ PipelineIdle
    /\ HotspotIdle
    /\ RegimeIdle
    /\ ClassifyIdle
    /\ EpisodeIdle
    /\ era5_data \in TrajFields
    /\ start_lon = DELHI_CENTER.lon
    /\ start_lat = DELHI_CENTER.lat
    /\ start_time \in {24 * d : d \in 1..NDays + 1}
    /\ hours_back \in HoursBackValues
    /\ raise_step \in RaiseSteps
    /\ hour = 0
    /\ current_lon = start_lon
    /\ current_lat = start_lat
    /\ trajectory = <<>>

\* one iteration of the loop of line 214 whose try block completes
TrajStep ==
    /\ pc = "traj_loop"
    /\ InRange(hour, hours_back)
    /\ ~SelRaises(era5_data, hour, raise_step)
    /\ LET w == Waypoint(era5_data, start_time, hour, current_lon, current_lat)
       IN /\ current_lon' = w.lon
          /\ current_lat' = w.lat
          /\ trajectory' = Append(trajectory, w)
    /\ hour' = hour + range_step
    /\ UNCHANGED <<pipelineVars, hotspotVars, pc, regimeVars, era5_data, start_lon, start_lat,
                   start_time, hours_back, raise_step, classifyVars, episodeVars>>

\* TrajBreak with the waypoint appended before the sampling is attempted
TrajBreak_AppendsFirst ==
    /\ pc = "traj_loop"
    /\ InRange(hour, hours_back)
    /\ SelRaises(era5_data, hour, raise_step)
    /\ pc' = "traj_done"
    /\ trajectory' = Append(trajectory,
           [time |-> start_time - hour, lon |-> current_lon,
            lat |-> current_lat, u_wind |-> NaN, v_wind |-> NaN])
    /\ UNCHANGED <<pipelineVars, hotspotVars, regimeVars, era5_data, start_lon, start_lat, start_time,
                   hours_back, hour, current_lon, current_lat, raise_step,
                   classifyVars, episodeVars>>

\* one iteration whose sampling raises: except, break, return (lines 242-245)
TrajBreak ==
    /\ pc = "traj_loop"
    /\ InRange(hour, hours_back)
    /\ SelRaises(era5_data, hour, raise_step)
    /\ pc' = "traj_done"
    /\ UNCHANGED <<pipelineVars, hotspotVars, regimeVars, era5_data, trajVars, classifyVars, episodeVars>>

\* the range is exhausted: return (line 245)
TrajReturn ==
    /\ pc = "traj_loop"
    /\ ~InRange(hour, hours_back)
    /\ pc' = "traj_done"
    /\ UNCHANGED <<pipelineVars, hotspotVars, regimeVars, era5_data, trajVars, classifyVars, episodeVars>>

NextTraj == TrajStep \/ TrajBreak \/ TrajReturn

SpecTraj == InitTraj /\ [][NextTraj]_vars

(***************************************************************************)
(* Monthly alignment: classify_pollution_regime                            *)
(***************************************************************************)
\* the calendar of the model: NMonths months of DaysPerMonth days
NMonths == 3
DaysPerMonth == 2

\* Timestamp.to_period('M') and the '1MS' bins: the month of a time in hours
MonthOf(t) == t \div (24 * DaysPerMonth)

RECURSIVE SumSeq(_)
SumSeq(q) == IF q = <<>> THEN 0 ELSE Head(q) + SumSeq(Tail(q))

\* .mean() of a bin: the mean of its present values, missing for a bin
\* without any
MeanOf(values) ==
    LET present == SelectSeq(values, LAMBDA x : x # NaN)
    IN IF present = <<>> THEN NaN
       ELSE RoundDiv(SumSeq(present), Len(present))

\* lines 119-123: the cell of time index t nearest to the reference point
NearestCell(field, t, center) ==
    field.wind[t][NearestIndex(GridLat, center.lat)]
                 [NearestIndex(GridLon, center.lon)]

RECURSIVE DaysOfMonth(_, _, _)
\* the time indexes from t on whose timestamp falls in month m, in order
DaysOfMonth(field, m, t) ==
    IF t > Len(field.time) THEN <<>>
    ELSE IF MonthOf(field.time[t]) = m
         THEN <<t>> \o DaysOfMonth(field, m, t + 1)
         ELSE DaysOfMonth(field, m, t + 1)

\* lines 127-157: one row of the monthly table, every variable of the
\* reference cell averaged over the days of month m
MonthlyRow(field, m, center) ==
    LET days == DaysOfMonth(field, m, 1)
        cells == [k \in 1..Len(days) |-> NearestCell(field, days[k], center)]
    IN [month_key |-> m,
        u_wind |-> MeanOf([k \in 1..Len(days) |-> cells[k].u]),
        v_wind |-> MeanOf([k \in 1..Len(days) |-> cells[k].v]),
        wind_speed |-> MeanOf([k \in 1..Len(days) |-> cells[k].wind_speed]),
        wind_direction |->
            MeanOf([k \in 1..Len(days) |-> cells[k].wind_direction])]

\* resample(time='1MS').mean(): one row per month from the month of the
\* first timestamp to the month of the last, empty months included
MonthlyWind(field, center) ==
    LET first == MonthOf(field.time[1])
        last == MonthOf(field.time[Len(field.time)])
    IN [k \in 1..(last - first + 1) |-> MonthlyRow(field, first + k - 1, center)]

\* the row of the monthly table without a value in any column
NoWindRow ==
    [u_wind |-> NaN, v_wind |-> NaN, wind_speed |-> NaN, wind_direction |-> NaN]

\* lines 170-174: one row of the merge, the record with the four wind
\* columns of a row of the table, the month key dropped
MergedRow(rec, row) ==
    [date |-> rec.date, value |-> rec.value,
     u_wind |-> row.u_wind, v_wind |-> row.v_wind,
     wind_speed |-> row.wind_speed,
     wind_direction |-> row.wind_direction]

\* MergeRecord of an inner join: no row for a record without a match
MergeRecord_Inner(rec, table) ==
    LET hits == SelectSeq(table, LAMBDA row : row.month_key = MonthOf(rec.date))
    IN [k \in 1..Len(hits) |-> MergedRow(rec, hits[k])]

\* lines 161-174: the left merge on the month key, for one record: one row
\* for every row of the table with the record's month, one row without
\* winds when there is none
MergeRecord(rec, table) ==
    LET hits == SelectSeq(table, LAMBDA row : row.month_key = MonthOf(rec.date))
    IN IF hits = <<>> THEN <<MergedRow(rec, NoWindRow)>>
       ELSE [k \in 1..Len(hits) |-> MergedRow(rec, hits[k])]

RECURSIVE LeftMerge(_, _)
\* lines 170-173: the rows of the records in the order of the records
LeftMerge(series, table) ==
    IF series = <<>> THEN <<>>
    ELSE MergeRecord(Head(series), table) \o LeftMerge(Tail(series), table)

\* RowRegime reading the averaged per-day speed and direction of the row
RowRegime_FromDailyMeans(row) ==
    IF FLt(row.wind_speed, wind_speed_threshold) THEN "local"
    ELSE DirectionRegime(row.wind_direction)

\* lines 177-180: the regime of one merged row
RowRegime(row) == calculate_wind_regime(row.u_wind, row.v_wind)

\* lines 177-184: regime and the two flags added to one merged row
ClassifyRow(row) ==
    LET r == RowRegime(row)
    IN [date |-> row.date, value |-> row.value,
        u_wind |-> row.u_wind, v_wind |-> row.v_wind,
        wind_speed |-> row.wind_speed,
        wind_direction |-> row.wind_direction,
        regime |-> r,
        is_local |-> (r = "local"),
        is_advected |-> (r # "local")]

\* the function as a whole
classify_pollution_regime(series, field, center) ==
    LET table == MonthlyWind(field, center)
        merged == LeftMerge(series, table)
    IN [i \in 1..Len(merged) |-> ClassifyRow(merged[i])]

\* the daily winds at the reference cell, and the wind of the other cell
ClassifyWinds == {DailyCell(10000, 0), DailyCell(-10000, 0),
                  DailyCell(0, -3000), DailyCell(-3000, -3000)}
FarWind == DailyCell(0, 8000)

\* strictly increasing daily time indexes of NDays days of the calendar
ClassifyTimes ==
    {t \in [1..NDays -> {24 * d : d \in 0..(NMonths * DaysPerMonth - 1)}] :
        \A i \in 1..(NDays - 1) : t[i] < t[i + 1]}

ClassifyFields ==
    {[time |-> t,
      wind |-> [k \in 1..NDays |->
                   [i \in 1..Len(GridLat) |->
                       [j \in 1..Len(GridLon) |->
                           IF i = 1 /\ j = 1 THEN w[k] ELSE FarWind]]]] :
        t \in ClassifyTimes, w \in [1..NDays -> ClassifyWinds]}

\* the monthly series: one record in the middle of each month; the value of
\* month m is missing in the series numbered m
MonthlySeries(gap) ==
    [i \in 1..NMonths |->
        [date |-> 24 * DaysPerMonth * (i - 1) + 12 * DaysPerMonth,
         value |-> IF i - 1 = gap THEN NaN ELSE 10 * i]]

InitClassify ==
    /\ pc = "classify_resample"
    /\ PipelineIdle
    /\ HotspotIdle
    /\ RegimeIdle
    /\ TrajIdle
    /\ EpisodeIdle
    /\ era5_data \in ClassifyFields
    /\ pollutant_data \in {MonthlySeries(g) : g \in 0..NMonths}
    /\ wind_df = <<>>
    /\ result = <<>>

\* lines 118-157
ClassifyResample ==
    /\ pc = "classify_resample"
    /\ wind_df' = MonthlyWind(era5_data, DELHI_CENTER)
    /\ pc' = "classify_merge"
    /\ UNCHANGED <<pipelineVars, hotspotVars, regimeVars, era5_data, trajVars, episodeVars, pollutant_data, result>>

\* lines 159-174
ClassifyMerge ==
    /\ pc = "classify_merge"
    /\ result' = LeftMerge(pollutant_data, wind_df)
    /\ pc' = "classify_apply"
    /\ UNCHANGED <<pipelineVars, hotspotVars, regimeVars, era5_data, trajVars, episodeVars, pollutant_data, wind_df>>

\* lines 176-186
ClassifyApply ==
    /\ pc = "classify_apply"
    /\ result' = [i \in 1..Len(result) |-> ClassifyRow(result[i])]
    /\ pc' = "classify_done"
    /\ UNCHANGED <<pipelineVars, hotspotVars, regimeVars, era5_data, trajVars, episodeVars, pollutant_data, wind_df>>

NextClassify == ClassifyResample \/ ClassifyMerge \/ ClassifyApply

SpecClassify == InitClassify /\ [][NextClassify]_vars

(***************************************************************************)
(* EpisodeDetector: analyze_severe_episodes                                *)
(***************************************************************************)
episode_hours_back == 72
km_per_degree == 111

\* line 272: pollutant_data['value'].dropna()
PresentValues(series) ==
    SelectSeq([i \in 1..Len(series) |-> series[i].value], LAMBDA x : x # NaN)

\* the values in descending order
Descending(q) == SortSeq(q, LAMBDA a, b : a > b)

\* the values in ascending order
Ascending(q) == SortSeq(q, LAMBDA a, b : a < b)

\* line 277: 100 * np.percentile(values, q), linear interpolation between the
\* sorted values at positions floor and ceil of q / 100 * (n - 1); the factor
\* 100 keeps the interpolated value exact
Percentile100(values, q) ==
    LET s == Ascending(values)
        n == Len(s)
        pos == q * (n - 1)
        lo == pos \div 100 + 1
        hi == IF lo < n THEN lo + 1 ELSE n
    IN 100 * s[lo] + (pos % 100) * (s[hi] - s[lo])

\* IsSevere with a strict comparison
IsSevere_Strict(value, thr) == value # NaN /\ 100 * value > thr

\* line 278: value >= threshold (false for a missing value)
IsSevere(value, thr) == value # NaN /\ 100 * value >= thr

\* line 278: the selected rows, their trajectory columns not yet set
SevereDays(series, thr) ==
    LET rows == SelectSeq(series, LAMBDA r : IsSevere(r.value, thr))
    IN [i \in 1..Len(rows) |->
           rows[i] @@ [origin_lon |-> NaN, origin_lat |-> NaN,
                       trajectory_distance |-> NaN]]

\* lines 298-301: planar distance in metres between the origin and the
\* reference center, 111 km per degree
TrajectoryDistance(origin) ==
    LET dlon == origin.lon - DELHI_CENTER.lon
        dlat == origin.lat - DELHI_CENTER.lat
    IN Sqrt(dlon * dlon + dlat * dlat) * km_per_degree

\* WithOrigin taking the first waypoint as the origin
WithOrigin_FirstWaypoint(row, field, rs) ==
    LET traj == calculate_back_trajectory(field, DELHI_CENTER.lon,
                    DELHI_CENTER.lat, row.date, episode_hours_back, rs)
        origin == traj[1]
    IN IF traj = <<>> THEN row
       ELSE [row EXCEPT !.origin_lon = origin.lon,
                        !.origin_lat = origin.lat,
                        !.trajectory_distance = TrajectoryDistance(origin)]

\* lines 285-301 for one selected row
WithOrigin(row, field, rs) ==
    LET traj == calculate_back_trajectory(field, DELHI_CENTER.lon,
                    DELHI_CENTER.lat, row.date, episode_hours_back, rs)
        origin == traj[Len(traj)]
    IN IF traj = <<>> THEN row
       ELSE [row EXCEPT !.origin_lon = origin.lon,
                        !.origin_lat = origin.lat,
                        !.trajectory_distance = TrajectoryDistance(origin)]

PercentileValues == {0, 50, 90, 100}
EpisodeValues == {NaN, 10, 20}

\* fields whose winds do not change with time
EpisodeFields ==
    {[time |-> t, wind |-> [d \in 1..NDays |-> w]] :
        t \in {RegularTimes, OverlapTimes},
        w \in [1..Len(GridLat) -> [1..Len(GridLon) -> TrajWinds]]}

\* the series of NMonths monthly records, and the series without records
EpisodeSeries ==
    {<<>>} \cup
    {[i \in 1..NMonths |->
         [date |-> 24 * DaysPerMonth * (i - 1) + 12 * DaysPerMonth,
          value |-> v[i]]] : v \in [1..NMonths -> EpisodeValues]}

InitEpisodes ==
    /\ pc = "episodes_select"
    /\ PipelineIdle
    /\ HotspotIdle
    /\ RegimeIdle
    /\ era5_data \in EpisodeFields
    /\ pollutant_data \in EpisodeSeries
    /\ wind_df = <<>> /\ result = <<>>
    /\ threshold_percentile \in PercentileValues
    /\ threshold = NaN
    /\ severe_days = <<>>
    /\ episode = 0
    /\ start_lon = NaN /\ start_lat = NaN /\ start_time = 0
    /\ hours_back = 0 /\ hour = 0
    /\ current_lon = NaN /\ current_lat = NaN
    /\ trajectory = <<>>
    /\ raise_step \in {-1, 0, range_step}

\* EpisodesEmpty selecting every record and entering the trajectory loop
EpisodesEmpty_EntersLoop ==
    /\ pc = "episodes_select"
    /\ PresentValues(pollutant_data) = <<>>
    /\ severe_days' =
           [i \in 1..Len(pollutant_data) |->
               pollutant_data[i] @@ [origin_lon |-> NaN, origin_lat |-> NaN,
                                     trajectory_distance |-> NaN]]
    /\ episode' = 1
    /\ pc' = "episodes_loop"
    /\ UNCHANGED <<pipelineVars, hotspotVars, regimeVars, era5_data, trajVars, classifyVars,
                   threshold_percentile, threshold>>

\* lines 272-275: no present value, the empty frame is returned
EpisodesEmpty ==
    /\ pc = "episodes_select"
    /\ PresentValues(pollutant_data) = <<>>
    /\ severe_days' = <<>>
    /\ pc' = "episodes_done"
    /\ UNCHANGED <<pipelineVars, hotspotVars, regimeVars, era5_data, trajVars, classifyVars,
                   threshold_percentile, threshold, episode>>

\* lines 277-283: the threshold and the selection
EpisodesSelect ==
    /\ pc = "episodes_select"
    /\ PresentValues(pollutant_data) # <<>>
    /\ LET thr == Percentile100(PresentValues(pollutant_data),
                                threshold_percentile)
       IN /\ threshold' = thr
          /\ severe_days' = SevereDays(pollutant_data, thr)
    /\ episode' = 1
    /\ pc' = "episodes_loop"
    /\ UNCHANGED <<pipelineVars, hotspotVars, regimeVars, era5_data, trajVars, classifyVars,
                   threshold_percentile>>

\* lines 284-301: one iteration of the loop over the selected rows
EpisodeTrajectory ==
    /\ pc = "episodes_loop"
    /\ episode <= Len(severe_days)
    /\ severe_days' =
           [severe_days EXCEPT ![episode] =
               WithOrigin(severe_days[episode], era5_data, raise_step)]
    /\ episode' = episode + 1
    /\ UNCHANGED <<pipelineVars, hotspotVars, pc, regimeVars, era5_data, trajVars, classifyVars,
                   threshold_percentile, threshold>>

\* line 303
EpisodesReturn ==
    /\ pc = "episodes_loop"
    /\ episode > Len(severe_days)
    /\ pc' = "episodes_done"
    /\ UNCHANGED <<pipelineVars, hotspotVars, regimeVars, era5_data, trajVars, classifyVars, episodeVars>>

NextEpisodes ==
    EpisodesEmpty \/ EpisodesSelect \/ EpisodeTrajectory \/ EpisodesReturn

SpecEpisodes == InitEpisodes /\ [][NextEpisodes]_vars

(***************************************************************************)
(* HotspotClusterer: calculate_persistent_hotspots                         *)
(* (src/scripts/hotspot_analysis.py).  Coordinates of this part are in     *)
(* units of 0.0001 degree, the precision of config.KNOWN_SOURCES.          *)
(***************************************************************************)
HotspotMonths == 2

\* the lat and lon coordinates of the composite grid
HotLat == <<285400, 286400>>
HotLon == <<771000, 772300, 773000>>

RECURSIVE Factorial(_)
Factorial(n) == IF n <= 1 THEN 1 ELSE n * Factorial(n - 1)

\* cell means are kept as multiples of 1 / MeanScale, which makes the mean
\* of any 1..HotspotMonths small integers exact
MeanScale == Factorial(HotspotMonths)

\* the functions of this specification are not running
EngineIdle ==
    /\ RegimeIdle /\ era5_data = NoField /\ TrajIdle
    /\ ClassifyIdle /\ EpisodeIdle

\* CellMean giving a missing mean as soon as one month is missing
CellMean_AnyMissing(series) ==
    IF \E t \in 1..Len(series) : series[t] = NaN THEN NaN
    ELSE (SumSeq(series) * MeanScale) \div Len(series)

\* line 63: data_array.mean(dim='time') of one cell; missing months are
\* skipped, a cell without a present month has a missing mean
CellMean(series) ==
    LET present == SelectSeq(series, LAMBDA x : x # NaN)
    IN IF present = <<>> THEN NaN
       ELSE (SumSeq(present) * MeanScale) \div Len(present)

\* lines 62-65: the temporal mean, or the array itself without a time
\* dimension (its cells then hold one value)
MeanData(ds) ==
    [i \in 1..Len(HotLat) |-> [j \in 1..Len(HotLon) |->
        IF "time" \in ds.dims THEN CellMean(ds.values[i][j])
        ELSE IF ds.values[i][j][1] = NaN THEN NaN
        ELSE ds.values[i][j][1] * MeanScale]]

\* lines 68-69: the flattened means (row-major) without the missing ones
HotspotValues(means) ==
    SelectSeq([k \in 1..(Len(HotLat) * Len(HotLon)) |->
                  means[((k - 1) \div Len(HotLon)) + 1]
                       [((k - 1) % Len(HotLon)) + 1]],
              LAMBDA x : x # NaN)

\* HotspotThreshold always taking the median
HotspotThreshold_Median(values, q) == Percentile100(values, 50)

\* line 76: 100 * np.percentile(values, percentile_threshold)
HotspotThreshold(values, q) == Percentile100(values, q)

\* IsHotspot with a comparison that is not strict
IsHotspot_AtOrAbove(mean, thr) == mean # NaN /\ 100 * mean >= thr

\* line 79: mean_data > threshold (false for a missing mean)
IsHotspot(mean, thr) == mean # NaN /\ 100 * mean > thr

\* line 79: the mask, 1 for a hotspot cell and 0 for any other
HotspotMask(means, thr) ==
    [i \in 1..Len(HotLat) |-> [j \in 1..Len(HotLon) |->
        IF IsHotspot(means[i][j], thr) THEN 1 ELSE 0]]

\* the value None returned instead of a mask
NoMask == <<>>

\* lines 33-81
calculate_persistent_hotspots(ds, q) ==
    IF ds.values = <<>> THEN NoMask
    ELSE LET means == MeanData(ds)
             values == HotspotValues(means)
         IN IF values = <<>> THEN NoMask
            ELSE HotspotMask(means, HotspotThreshold(values, q))

\* the monthly series of one cell: never observed, constant 1, first month
\* missing then 2, and 3 then 1
CellSeries ==
    {[t \in 1..HotspotMonths |-> NaN],
     [t \in 1..HotspotMonths |-> 1],
     [t \in 1..HotspotMonths |-> IF t = 1 THEN NaN ELSE 2],
     [t \in 1..HotspotMonths |-> IF t = 1 THEN 3 ELSE 1]}

\* composites with a time dimension
TimeComposites ==
    {[dims |-> {"time", "lat", "lon"}, values |-> g] :
        g \in [1..Len(HotLat) -> [1..Len(HotLon) -> CellSeries]]}

\* composites without a time dimension
FlatComposites ==
    {[dims |-> {"lat", "lon"}, values |-> g] :
        g \in [1..Len(HotLat) -> [1..Len(HotLon) -> {<<NaN>>, <<1>>, <<2>>}]]}

\* the datasets given to the function; NoComposite has no data variable
Composites == TimeComposites \cup FlatComposites \cup {NoComposite}

SourcesIdle == source_df = <<>> /\ source_k = 0

ClusterIdle == hotspot_coords = <<>> /\ eps_km = 0 /\ labels = <<>>

InitHotspots ==
    /\ pc = "hotspots_start"
    /\ PipelineIdle
    /\ EngineIdle
    /\ composite \in Composites
    /\ percentile_threshold \in PercentileValues
    /\ mean_data = <<>> /\ hotspots = <<>>
    /\ SourcesIdle /\ ClusterIdle
    /\ output_file = <<>>

\* lines 50-56: no data variable, None is returned
HotspotsNoData ==
    /\ pc = "hotspots_start"
    /\ composite.values = <<>>
    /\ hotspots' = NoMask
    /\ pc' = "hotspots_done"
    /\ UNCHANGED <<pipelineVars, regimeVars, era5_data, trajVars, classifyVars, episodeVars,
                   composite, percentile_threshold, mean_data, source_df,
                   source_k, hotspot_coords, eps_km, labels, output_file>>

\* lines 58-65: the mean over time
HotspotsMean ==
    /\ pc = "hotspots_start"
    /\ composite.values # <<>>
    /\ mean_data' = MeanData(composite)
    /\ pc' = "hotspots_values"
    /\ UNCHANGED <<pipelineVars, regimeVars, era5_data, trajVars, classifyVars, episodeVars,
                   composite, percentile_threshold, hotspots, source_df,
                   source_k, hotspot_coords, eps_km, labels, output_file>>

\* lines 68-73: no present mean, None is returned
HotspotsNone ==
    /\ pc = "hotspots_values"
    /\ HotspotValues(mean_data) = <<>>
    /\ hotspots' = NoMask
    /\ pc' = "hotspots_done"
    /\ UNCHANGED <<pipelineVars, regimeVars, era5_data, trajVars, classifyVars, episodeVars,
                   composite, percentile_threshold, mean_data, source_df,
                   source_k, hotspot_coords, eps_km, labels, output_file>>

\* lines 76-81: the threshold and the mask
HotspotsMask ==
    /\ pc = "hotspots_values"
    /\ HotspotValues(mean_data) # <<>>
    /\ hotspots' =
           HotspotMask(mean_data,
                       HotspotThreshold(HotspotValues(mean_data),
                                        percentile_threshold))
    /\ pc' = "hotspots_done"
    /\ UNCHANGED <<pipelineVars, regimeVars, era5_data, trajVars, classifyVars, episodeVars,
                   composite, percentile_threshold, mean_data, source_df,
                   source_k, hotspot_coords, eps_km, labels, output_file>>

NextHotspots == HotspotsNoData \/ HotspotsMean \/ HotspotsNone \/ HotspotsMask

SpecHotspots == InitHotspots /\ [][NextHotspots]_vars

(***************************************************************************)
(* HotspotClusterer: identify_source_regions                               *)
(***************************************************************************)
match_radius_km == 10

\* config.py lines 92-105: the categories in their order, each with its
\* sources in their order
KNOWN_SOURCES ==
    <<[source_type |-> "power_plants",
       sources |-> <<[name |-> "Badarpur TPS", lon |-> 773083, lat |-> 285014],
                     [name |-> "Rajghat TPS", lon |-> 772300, lat |-> 286400]>>],
      [source_type |-> "industrial_areas",
       sources |-> <<[name |-> "Okhla Industrial Area",
                      lon |-> 772833, lat |-> 285500],
                     [name |-> "Noida Industrial Area",
                      lon |-> 773167, lat |-> 285667]>>],
      [source_type |-> "crop_burning_regions",
       sources |-> <<[name |-> "Punjab", lon |-> 753412, lat |-> 300668],
                     [name |-> "Haryana", lon |-> 760856, lat |-> 290588]>>]>>

RECURSIVE SourceList(_)
\* lines 117-118: the (category, source) pairs in the order the two nested
\* loops visit them
SourceList(known_sources) ==
    IF known_sources = <<>> THEN <<>>
    ELSE [i \in 1..Len(Head(known_sources).sources) |->
             [source_type |-> Head(known_sources).source_type,
              source |-> Head(known_sources).sources[i]]]
         \o SourceList(Tail(known_sources))

\* lines 103-105: np.where(hotspots.values == 1), the marked cells in
\* row-major order with their coordinates
HotspotCoords(mask) ==
    LET cell(k) == <<((k - 1) \div Len(HotLon)) + 1, ((k - 1) % Len(HotLon)) + 1>>
        marked == SelectSeq([k \in 1..(Len(HotLat) * Len(HotLon)) |-> k],
                            LAMBDA k : mask[cell(k)[1]][cell(k)[2]] = 1)
    IN [r \in 1..Len(marked) |->
           [lon |-> HotLon[cell(marked[r])[2]],
            lat |-> HotLat[cell(marked[r])[1]]]]

\* lines 108-115: the table with its default columns
SourceFrame(mask) ==
    [r \in 1..Len(HotspotCoords(mask)) |->
        HotspotCoords(mask)[r] @@
            [source_type |-> "unknown", distance_to_known |-> NaN]]

\* lines 119-122: sqrt(dlon^2 + dlat^2) * 111, in units of 0.0001 km
SourceDistance(lon, lat, source) ==
    LET dlon == lon - source.lon
        dlat == lat - source.lat
    IN Sqrt(dlon * dlon + dlat * dlat) * 111

\* Nearby with twice the radius
Nearby_TwiceTheRadius(distance) == distance < 2 * match_radius_km * 10000

\* line 125: distances < 10
Nearby(distance) == distance < match_radius_km * 10000

\* the value of known_source_name in a row that was never matched
NoName == "nan"

\* the row with the column known_source_name, which line 128 adds to the
\* table the first time it runs
WithNameColumn(row) ==
    IF "known_source_name" \in DOMAIN row THEN row
    ELSE row @@ [known_source_name |-> NoName]

\* MatchRow that keeps the nearest source found so far
MatchRow_KeepNearest(row, entry) ==
    LET d == SourceDistance(row.lon, row.lat, entry.source)
    IN IF Nearby(d) /\ (row.distance_to_known = NaN \/ d < row.distance_to_known)
       THEN [WithNameColumn(row) EXCEPT
                !.source_type = entry.source_type,
                !.distance_to_known = d,
                !.known_source_name = entry.source.name]
       ELSE WithNameColumn(row)

\* lines 119-128 for one row and one source
MatchRow(row, entry) ==
    LET d == SourceDistance(row.lon, row.lat, entry.source)
    IN IF Nearby(d)
       THEN [WithNameColumn(row) EXCEPT
                !.source_type = entry.source_type,
                !.distance_to_known = d,
                !.known_source_name = entry.source.name]
       ELSE WithNameColumn(row)

RECURSIVE MatchFrom(_, _, _)
\* lines 117-128 from position k of the enumeration on
MatchFrom(rows, list, k) ==
    IF k > Len(list) THEN rows
    ELSE MatchFrom([r \in 1..Len(rows) |-> MatchRow(rows[r], list[k])],
                   list, k + 1)

\* lines 83-130
identify_source_regions(mask, known_sources) ==
    MatchFrom(SourceFrame(mask), SourceList(known_sources), 1)

\* any mask over the grid
Masks == [1..Len(HotLat) -> [1..Len(HotLon) -> {0, 1}]]

InitSources ==
    /\ pc = "sources_start"
    /\ PipelineIdle
    /\ EngineIdle
    /\ composite = NoComposite /\ percentile_threshold = 0
    /\ mean_data = <<>>
    /\ hotspots \in Masks
    /\ SourcesIdle /\ ClusterIdle
    /\ output_file = <<>>

\* lines 103-115
SourcesFrame ==
    /\ pc = "sources_start"
    /\ source_df' = SourceFrame(hotspots)
    /\ source_k' = 1
    /\ pc' = "sources_loop"
    /\ UNCHANGED <<pipelineVars, regimeVars, era5_data, trajVars, classifyVars, episodeVars,
                   composite, percentile_threshold, mean_data, hotspots,
                   hotspot_coords, eps_km, labels, output_file>>

\* lines 117-128: one source of the enumeration
SourcesMatch ==
    /\ pc = "sources_loop"
    /\ source_k <= Len(SourceList(KNOWN_SOURCES))
    /\ source_df' =
           [r \in 1..Len(source_df) |->
               MatchRow(source_df[r], SourceList(KNOWN_SOURCES)[source_k])]
    /\ source_k' = source_k + 1
    /\ UNCHANGED <<pipelineVars, regimeVars, era5_data, trajVars, classifyVars, episodeVars,
                   pc, composite, percentile_threshold, mean_data, hotspots,
                   hotspot_coords, eps_km, labels, output_file>>

\* line 130
SourcesReturn ==
    /\ pc = "sources_loop"
    /\ source_k > Len(SourceList(KNOWN_SOURCES))
    /\ pc' = "sources_done"
    /\ UNCHANGED <<pipelineVars, regimeVars, era5_data, trajVars, classifyVars, episodeVars,
                   hotspotVars>>

NextSources == SourcesFrame \/ SourcesMatch \/ SourcesReturn

SpecSources == InitSources /\ [][NextSources]_vars

(***************************************************************************)
(* HotspotClusterer: cluster_hotspots                                      *)
(***************************************************************************)
min_samples == 3
units_per_radian == 572958

\* line 152 and the haversine metric of line 155: eps = eps_km / 111 is
\* compared with distances that are angles in radians; the radius as an
\* angle in units of 0.0001 degree
EpsArc(km) == (km * units_per_radian) \div 111

\* line 155, metric='haversine' on np.radians of (lon, lat): the square of
\* the angle between two points in units of 0.0001 degree.  The metric takes
\* the first coordinate of a point (here lon) as its latitude and the second
\* (here lat) as its longitude; the small-angle form
\* d1^2 + cos(a1) cos(a2) d2^2 of the haversine formula is used
HaversineSquare(p, q) ==
    LET d1 == p[1] - q[1]
        d2 == Abs(p[2] - q[2])
    IN d1 * d1 + ((d2 * CosMilli(p[1] \div 10)) \div 1000)
                 * ((d2 * CosMilli(q[1] \div 10)) \div 1000)

\* the points within eps of point i, itself included
Neighbourhood(coords, eps, i) ==
    {j \in 1..Len(coords) : HaversineSquare(coords[i], coords[j]) <= eps * eps}

\* a core point has at least min_samples points in its neighbourhood
IsCore(coords, eps, i) ==
    Cardinality(Neighbourhood(coords, eps, i)) >= min_samples

RECURSIVE Expand(_, _, _)
\* the points reached from the set S through neighbourhoods of core points
Expand(coords, eps, S) ==
    LET T == S \cup UNION {Neighbourhood(coords, eps, c) :
                              c \in {s \in S : IsCore(coords, eps, s)}}
    IN IF T = S THEN S ELSE Expand(coords, eps, T)

RECURSIVE DbscanFrom(_, _, _, _, _)
\* DBSCAN from point i on: an unlabelled core point starts cluster label_num,
\* which takes every unlabelled point reached from it
DbscanFrom(coords, eps, i, label_num, lab) ==
    IF i > Len(coords) THEN lab
    ELSE IF lab[i] # -1 \/ ~IsCore(coords, eps, i)
         THEN DbscanFrom(coords, eps, i + 1, label_num, lab)
         ELSE DbscanFrom(coords, eps, i + 1, label_num + 1,
                  [v \in 1..Len(coords) |->
                      IF lab[v] = -1 /\ v \in Expand(coords, eps, {i})
                      THEN label_num ELSE lab[v]])

\* lines 132-158
cluster_hotspots(coords, km) ==
    DbscanFrom(coords, EpsArc(km), 1, 0, [i \in 1..Len(coords) |-> -1])

\* candidate points (lon, lat): three within 2.3 km of each other, one 49 km
\* to the east, one 320 km to the east and one 500 km to the north
ClusterPoints ==
    <<<<772000, 286000>>, <<772200, 286000>>, <<772000, 286200>>,
      <<777000, 286000>>, <<805000, 286000>>, <<772000, 331000>>>>

\* the candidate points of a set of positions, in their order
CoordSets ==
    {SelectSeq(ClusterPoints,
               LAMBDA p : \E k \in S : ClusterPoints[k] = p) :
        S \in SUBSET (1..Len(ClusterPoints))}

EpsKmValues == {1, 5}

InitCluster ==
    /\ pc = "cluster_start"
    /\ PipelineIdle
    /\ EngineIdle
    /\ composite = NoComposite /\ percentile_threshold = 0
    /\ mean_data = <<>> /\ hotspots = <<>>
    /\ SourcesIdle
    /\ hotspot_coords \in CoordSets
    /\ eps_km \in EpsKmValues
    /\ labels = <<>>
    /\ output_file = <<>>

\* line 156 on an empty array: DBSCAN refuses it and the call raises
ClusterRaise ==
    /\ pc = "cluster_start"
    /\ hotspot_coords = <<>>
    /\ pc' = "cluster_raised"
    /\ UNCHANGED <<pipelineVars, regimeVars, era5_data, trajVars, classifyVars, episodeVars,
                   hotspotVars>>

\* lines 149-158
ClusterFit ==
    /\ pc = "cluster_start"
    /\ hotspot_coords # <<>>
    /\ labels' = cluster_hotspots(hotspot_coords, eps_km)
    /\ pc' = "cluster_done"
    /\ UNCHANGED <<pipelineVars, regimeVars, era5_data, trajVars, classifyVars, episodeVars,
                   composite, percentile_threshold, mean_data, hotspots,
                   source_df, source_k, hotspot_coords, eps_km, output_file>>

NextCluster == ClusterRaise \/ ClusterFit

SpecCluster == InitCluster /\ [][NextCluster]_vars

(***************************************************************************)
(* The hotspot stage: hotspot_analysis.main for one pollutant              *)
(***************************************************************************)
default_percentile == 90

\* line 195
hotspot_pollutants == <<"NO2", "SO2", "CO", "HCHO">>

InitMain ==
    /\ pc = "main_load"
    /\ LoadIdle /\ RunIdle /\ ProcessIdle
    /\ ts_files = <<>> /\ saved = <<>>
    /\ code = 1
    /\ EngineIdle
    /\ composite \in Composites
    /\ percentile_threshold = default_percentile
    /\ mean_data = <<>> /\ hotspots = <<>>
    /\ SourcesIdle /\ ClusterIdle
    /\ output_file = <<>>

\* lines 203-205: the composite file is missing or unreadable, the
\* pollutant is skipped
MainLoadFails ==
    /\ pc = "main_load"
    /\ pc' = "main_not_loaded"
    /\ UNCHANGED <<pipelineVars, regimeVars, era5_data, trajVars, classifyVars, episodeVars,
                   hotspotVars>>

\* lines 203-209: the composite is loaded and the hotspots are computed
MainHotspots ==
    /\ pc = "main_load"
    /\ hotspots' = calculate_persistent_hotspots(composite, percentile_threshold)
    /\ pc' = "main_check"
    /\ UNCHANGED <<pipelineVars, regimeVars, era5_data, trajVars, classifyVars, episodeVars,
                   composite, percentile_threshold, mean_data, source_df,
                   source_k, hotspot_coords, eps_km, labels, output_file>>

\* lines 211-213: no hotspots, the pollutant is skipped
MainSkip ==
    /\ pc = "main_check"
    /\ hotspots = NoMask
    /\ pc' = "main_skipped"
    /\ UNCHANGED <<pipelineVars, regimeVars, era5_data, trajVars, classifyVars, episodeVars,
                   hotspotVars>>

\* line 217: the hotspot cells are mapped to the known sources
MainSources ==
    /\ pc = "main_check"
    /\ hotspots # NoMask
    /\ source_df' = identify_source_regions(hotspots, KNOWN_SOURCES)
    /\ pc' = "main_save"
    /\ UNCHANGED <<pipelineVars, regimeVars, era5_data, trajVars, classifyVars, episodeVars,
                   composite, percentile_threshold, mean_data, hotspots,
                   source_k, hotspot_coords, eps_km, labels, output_file>>

\* lines 220-221: the table is written to the csv file
MainSave ==
    /\ pc = "main_save"
    /\ output_file' = source_df
    /\ pc' = "main_seasonal"
    /\ UNCHANGED <<pipelineVars, regimeVars, era5_data, trajVars, classifyVars, episodeVars,
                   composite, percentile_threshold, mean_data, hotspots,
                   source_df, source_k, hotspot_coords, eps_km, labels>>

\* lines 226-239: the seasonal means, which need the time coordinate of the
\* composite, and the summary
MainSeasonal ==
    /\ pc = "main_seasonal"
    /\ pc' = IF "time" \in composite.dims THEN "main_done" ELSE "main_raised"
    /\ UNCHANGED <<pipelineVars, regimeVars, era5_data, trajVars, classifyVars, episodeVars,
                   hotspotVars>>

\* line 197, lines 205, 213 and the end of the loop body: the loop goes
\* on to the next pollutant, which has no result yet
MainContinue ==
    /\ pc \in {"main_not_loaded", "main_skipped", "main_done"}
    /\ code < Len(hotspot_pollutants)
    /\ code' = code + 1
    /\ composite' = NoComposite
    /\ mean_data' = <<>> /\ hotspots' = <<>>
    /\ source_df' = <<>> /\ output_file' = <<>>
    /\ pc' = "main_next"
    /\ UNCHANGED <<regimeVars, era5_data, trajVars, classifyVars, episodeVars,
                   percentile_threshold, source_k, hotspot_coords, eps_km,
                   labels, loadVars, ts_files, saved, runVars, processVars>>

\* lines 198-203: the composite file of the next pollutant
MainOpen ==
    /\ pc = "main_next"
    /\ composite' \in Composites
    /\ pc' = "main_load"
    /\ UNCHANGED <<pipelineVars, regimeVars, era5_data, trajVars,
                   classifyVars, episodeVars, percentile_threshold, mean_data,
                   hotspots, source_df, source_k, hotspot_coords, eps_km,
                   labels, output_file>>

\* lines 241-243: the loop is over
MainEnd ==
    /\ pc \in {"main_not_loaded", "main_skipped", "main_done"}
    /\ code = Len(hotspot_pollutants)
    /\ pc' = "main_complete"
    /\ UNCHANGED <<pipelineVars, regimeVars, era5_data, trajVars,
                   classifyVars, episodeVars, hotspotVars>>

NextMain ==
    \/ MainLoadFails \/ MainHotspots \/ MainSkip
    \/ MainSources \/ MainSave \/ MainSeasonal
    \/ MainContinue \/ MainOpen \/ MainEnd

SpecMain == InitMain /\ [][NextMain]_vars

(***************************************************************************)
(* The trajectory stage: load_all_era5_daily, then the loop over the       *)
(* pollutants of trajectory_analysis.main                                  *)
(***************************************************************************)
\* the directory holds at most MaxFiles daily files
MaxFiles == 2

\* a file xarray cannot open
Unparsable == [ok |-> FALSE, time |-> <<>>, wind |-> <<>>]

\* a daily file of one period: its timestamps, one wind in every cell
PeriodFile(t, w) ==
    [ok |-> TRUE, time |-> t,
     wind |-> [k \in 1..Len(t) |->
                  [i \in 1..Len(GridLat) |-> [j \in 1..Len(GridLon) |-> w]]]]

\* the periods of the files: day 1, day 2, and both days
FilePeriods == {<<24>>, <<48>>, <<24, 48>>}

FileWinds == {DailyCell(3000, 2000), DailyCell(-5000, 0)}

DailyFiles ==
    {Unparsable} \cup {PeriodFile(t, w) : t \in FilePeriods, w \in FileWinds}

\* line 30: the sorted list of the *_daily.nc files of the directory
Directories == UNION {[1..n -> DailyFiles] : n \in 0..MaxFiles}

RECURSIVE Concat(_)
\* line 50: xr.concat(datasets, dim='time')
Concat(files) ==
    IF files = <<>> THEN NoField
    ELSE LET rest == Concat(Tail(files))
         IN [time |-> Head(files).time \o rest.time,
             wind |-> Head(files).wind \o rest.wind]

\* position i inserted in an order of earlier positions sorted by time
InsertByTime(order, times, i) ==
    SelectSeq(order, LAMBDA j : times[j] <= times[i]) \o <<i>>
    \o SelectSeq(order, LAMBDA j : times[j] > times[i])

RECURSIVE StableOrder(_, _)
\* the first n positions in the order of their times, equal times in the
\* order of the positions
StableOrder(times, n) ==
    IF n = 0 THEN <<>>
    ELSE InsertByTime(StableOrder(times, n - 1), times, n)

\* line 51: combined.sortby('time'), every record kept
sortby(field) ==
    LET order == StableOrder(field.time, Len(field.time))
    IN [time |-> [k \in 1..Len(order) |-> field.time[order[k]]],
        wind |-> [k \in 1..Len(order) |-> field.wind[order[k]]]]

\* line 317
pollutants == <<"NO2", "SO2", "CO", "HCHO">>

episode_percentile == 90

\* the time-series file of a pollutant: absent, present and not readable as
\* a dated series, or readable
TsFileStates == {"missing", "unusable", "ok"}

\* the series of a readable time-series file
StageSeries == MonthlySeries(NMonths)

\* lines 247-303 as a whole, no lookup raising but on duplicate timestamps
analyze_severe_episodes(series, field, q) ==
    IF PresentValues(series) = <<>> THEN <<>>
    ELSE LET rows == SevereDays(series, Percentile100(PresentValues(series), q))
         IN [i \in 1..Len(rows) |-> WithOrigin(rows[i], field, -1)]

InitTrajMain ==
    /\ pc = "tmain_load"
    /\ HotspotIdle
    /\ EngineIdle
    /\ RunIdle
    /\ ProcessIdle
    /\ daily_files \in Directories
    /\ datasets = <<>>
    /\ file_k = 0
    /\ ts_files \in [1..Len(pollutants) -> TsFileStates]
    /\ code = 0
    /\ saved = <<>>

\* lines 36-38: no daily file, the loader returns None
LoadNoFiles ==
    /\ pc = "tmain_load"
    /\ daily_files = <<>>
    /\ pc' = "tmain_none"
    /\ UNCHANGED <<hotspotVars, regimeVars, era5_data, trajVars, classifyVars,
                   episodeVars, pipelineVars>>

\* lines 40-41: the loop over the files starts
LoadStart ==
    /\ pc = "tmain_load"
    /\ daily_files # <<>>
    /\ file_k' = 1
    /\ pc' = "tmain_files"
    /\ UNCHANGED <<hotspotVars, regimeVars, era5_data, trajVars, classifyVars,
                   episodeVars, daily_files, datasets, stageVars, runVars,
                   processVars>>

\* LoadSkip giving up at the first file that fails to parse
LoadSkip_GivesUp ==
    /\ pc = "tmain_files"
    /\ file_k <= Len(daily_files)
    /\ ~daily_files[file_k].ok
    /\ pc' = "tmain_none"
    /\ UNCHANGED <<hotspotVars, regimeVars, era5_data, trajVars, classifyVars,
                   episodeVars, pipelineVars>>

\* lines 18-25, 41-45: a file that fails to parse is reported and skipped
LoadSkip ==
    /\ pc = "tmain_files"
    /\ file_k <= Len(daily_files)
    /\ ~daily_files[file_k].ok
    /\ file_k' = file_k + 1
    /\ UNCHANGED <<hotspotVars, pc, regimeVars, era5_data, trajVars,
                   classifyVars, episodeVars, daily_files, datasets,
                   stageVars, runVars, processVars>>

\* lines 41-45: a file that parses is appended to the list
LoadFile ==
    /\ pc = "tmain_files"
    /\ file_k <= Len(daily_files)
    /\ daily_files[file_k].ok
    /\ datasets' = Append(datasets, daily_files[file_k])
    /\ file_k' = file_k + 1
    /\ UNCHANGED <<hotspotVars, pc, regimeVars, era5_data, trajVars,
                   classifyVars, episodeVars, daily_files, stageVars, runVars,
                   processVars>>

\* lines 47-48: no file was loaded, the loader returns None
LoadAllFailed ==
    /\ pc = "tmain_files"
    /\ file_k > Len(daily_files)
    /\ datasets = <<>>
    /\ pc' = "tmain_none"
    /\ UNCHANGED <<hotspotVars, regimeVars, era5_data, trajVars, classifyVars,
                   episodeVars, pipelineVars>>

\* lines 50-54: the datasets are concatenated along time and sorted; main
\* enters its loop over the pollutants
LoadMerge ==
    /\ pc = "tmain_files"
    /\ file_k > Len(daily_files)
    /\ datasets # <<>>
    /\ era5_data' = sortby(Concat(datasets))
    /\ code' = 1
    /\ pc' = "tmain_loop"
    /\ UNCHANGED <<hotspotVars, regimeVars, trajVars, classifyVars,
                   episodeVars, loadVars, ts_files, saved, runVars,
                   processVars>>

\* lines 312-314: without a wind field main returns
TrajMainNoField ==
    /\ pc = "tmain_none"
    /\ pc' = "tmain_returned"
    /\ UNCHANGED <<hotspotVars, regimeVars, era5_data, trajVars, classifyVars,
                   episodeVars, pipelineVars>>

\* lines 321-324: the time series of the pollutant is not there
TrajMainMissing ==
    /\ pc = "tmain_loop"
    /\ code <= Len(pollutants)
    /\ ts_files[code] = "missing"
    /\ code' = code + 1
    /\ UNCHANGED <<hotspotVars, pc, regimeVars, era5_data, trajVars,
                   classifyVars, episodeVars, loadVars, ts_files, saved,
                   runVars, processVars>>

\* lines 331-340: reading or classifying the series raises; nothing in the
\* loop catches the error, main ends with it
TrajMainRaise ==
    /\ pc = "tmain_loop"
    /\ code <= Len(pollutants)
    /\ ts_files[code] = "unusable"
    /\ pc' = "tmain_raised"
    /\ UNCHANGED <<hotspotVars, regimeVars, era5_data, trajVars, classifyVars,
                   episodeVars, pipelineVars>>

\* lines 331-365: the series is read, classified, searched for severe
\* episodes and saved
TrajMainAnalyze ==
    /\ pc = "tmain_loop"
    /\ code <= Len(pollutants)
    /\ ts_files[code] = "ok"
    /\ pollutant_data' = StageSeries
    /\ result' = classify_pollution_regime(StageSeries, era5_data, DELHI_CENTER)
    /\ severe_days' = analyze_severe_episodes(result', era5_data,
                                              episode_percentile)
    /\ saved' = Append(saved, pollutants[code])
    /\ code' = code + 1
    /\ UNCHANGED <<hotspotVars, pc, regimeVars, era5_data, trajVars, wind_df,
                   threshold_percentile, threshold, episode, loadVars,
                   ts_files, runVars, processVars>>

\* lines 367-369: every pollutant was visited
TrajMainEnd ==
    /\ pc = "tmain_loop"
    /\ code > Len(pollutants)
    /\ pc' = "tmain_done"
    /\ UNCHANGED <<hotspotVars, regimeVars, era5_data, trajVars, classifyVars,
                   episodeVars, pipelineVars>>

NextTrajMain ==
    \/ LoadNoFiles \/ LoadStart \/ LoadSkip \/ LoadFile \/ LoadAllFailed
    \/ LoadMerge \/ TrajMainNoField \/ TrajMainMissing \/ TrajMainRaise
    \/ TrajMainAnalyze \/ TrajMainEnd

SpecTrajMain == InitTrajMain /\ [][NextTrajMain]_vars

(***************************************************************************)
(* The pipeline runner: run_analysis.main and its five stages              *)
(***************************************************************************)
\* the stages in the order of main's tests
Stages == <<"setup", "download", "process", "analyze", "visualize">>

StageNames == {Stages[i] : i \in 1..Len(Stages)}

\* lines 227-232: the values of --step
StepChoices == StageNames \cup {"all"}

\* the position of main before the test of a stage, and after the last test
StagePc(i) == IF i > Len(Stages) THEN "run_report" ELSE "run_" \o Stages[i]

\* the report a stage prints last, the message it prints when one of its
\* steps raises, and the message of a declined download
Complete(stage) == stage \o " complete"
Failed(stage) == stage \o " failed"
Skipped(stage) == stage \o " skipped"

\* AfterStage without the return of a single-step run
AfterStage_FallsThrough(i) == StagePc(i + 1)

\* lines 253-254, 258-259, 263-264, 268-269, 273-274: where main goes after
\* stage i ran
AfterStage(i) == IF step = Stages[i] THEN "run_returned" ELSE StagePc(i + 1)

\* a stage whose steps are each inside try/except: the header, the message
\* of a step that raises, the closing report
GuardedStage(i) ==
    <<Stages[i]>>
    \o (IF Stages[i] \in failing THEN <<Failed(Stages[i])>> ELSE <<>>)
    \o <<Complete(Stages[i])>>

\* the stages that no action of the runner touches
RunFrame ==
    UNCHANGED <<hotspotVars, regimeVars, era5_data, trajVars, classifyVars,
                episodeVars, loadVars, stageVars, processVars, step, failing>>

InitRun ==
    /\ pc = StagePc(1)
    /\ HotspotIdle
    /\ EngineIdle
    /\ LoadIdle /\ StageIdle /\ ProcessIdle
    /\ step \in StepChoices
    /\ failing \in SUBSET StageNames
    /\ log = <<>>

\* the test of a stage that the --step argument does not select
RunSkip ==
    /\ \E i \in 1..Len(Stages) :
           /\ pc = StagePc(i)
           /\ step \notin {Stages[i], "all"}
           /\ pc' = StagePc(i + 1)
    /\ log' = log
    /\ RunFrame

\* lines 32-48, 251-254: check_setup is called outside any try/except
run_setup ==
    /\ pc = StagePc(1)
    /\ step \in {Stages[1], "all"}
    /\ IF Stages[1] \in failing
       THEN /\ log' = log \o <<Stages[1]>>
            /\ pc' = "run_raised"
       ELSE /\ log' = log \o <<Stages[1], Complete(Stages[1])>>
            /\ pc' = AfterStage(1)
    /\ RunFrame

\* lines 50-93, 256-259: the prompt, then the two downloads, each inside
\* its own try/except
run_download ==
    /\ pc = StagePc(2)
    /\ step \in {Stages[2], "all"}
    /\ \E choice \in {"y", "n"} :
           log' = IF choice # "y"
                  THEN log \o <<Stages[2], Skipped(Stages[2])>>
                  ELSE log \o GuardedStage(2)
    /\ pc' = AfterStage(2)
    /\ RunFrame

\* lines 95-132, 261-264
run_process ==
    /\ pc = StagePc(3)
    /\ step \in {Stages[3], "all"}
    /\ log' = log \o GuardedStage(3)
    /\ pc' = AfterStage(3)
    /\ RunFrame

\* lines 134-166, 266-269
run_analyze ==
    /\ pc = StagePc(4)
    /\ step \in {Stages[4], "all"}
    /\ log' = log \o GuardedStage(4)
    /\ pc' = AfterStage(4)
    /\ RunFrame

\* lines 168-217, 271-274
run_visualize ==
    /\ pc = StagePc(5)
    /\ step \in {Stages[5], "all"}
    /\ log' = log \o GuardedStage(5)
    /\ pc' = AfterStage(5)
    /\ RunFrame

\* lines 276-281
RunReport ==
    /\ pc = "run_report"
    /\ log' = Append(log, "pipeline complete")
    /\ pc' = "run_completed"
    /\ RunFrame

NextRun ==
    \/ RunSkip \/ run_setup \/ run_download \/ run_process
    \/ run_analyze \/ run_visualize \/ RunReport

SpecRun == InitRun /\ [][NextRun]_vars

(***************************************************************************)
(* The ERA5 processing stage: process_all_era5 run twice over a directory  *)
(***************************************************************************)
\* the raw files of the directory are of at most MaxStems periods
MaxStems == 2

\* a file name: the period it is named after, the number of times the
\* suffix _daily was added to it, and whether it ends in .nc
FileName(stem, depth, nc) == [stem |-> stem, depth |-> depth, nc |-> nc]

\* the names a directory may hold before the first run: raw files,
\* daily files, and files of another kind
InitialNames ==
    {FileName(s, d, TRUE) : s \in 1..MaxStems, d \in 0..1}
    \cup {FileName(s, 0, FALSE) : s \in 1..MaxStems}

\* IsInput without the test on 'daily'
IsInput_AnyNetcdf(name) == name.nc

\* line 118: f.endswith('.nc') and 'daily' not in f
IsInput(name) == name.nc /\ name.depth = 0

\* the order of sorted() on names that differ in period or suffix
NameBefore(a, b) ==
    \/ a.stem < b.stem
    \/ a.stem = b.stem /\ a.depth < b.depth

RECURSIVE SortedNames(_)
\* line 118: sorted([...])
SortedNames(names) ==
    IF names = {} THEN <<>>
    ELSE LET first == CHOOSE a \in names :
                          \A b \in names \ {a} : NameBefore(a, b)
         IN <<first>> \o SortedNames(names \ {first})

\* line 35: basename.replace('.nc', '_daily.nc')
OutputName(name) == FileName(name.stem, name.depth + 1, name.nc)

\* what no action of the stage touches
ProcessFrame ==
    UNCHANGED <<hotspotVars, regimeVars, era5_data, trajVars, classifyVars,
                episodeVars, loadVars, stageVars, runVars, corrupt>>

InitProcess ==
    /\ pc = "process_list"
    /\ HotspotIdle
    /\ EngineIdle
    /\ LoadIdle /\ StageIdle /\ RunIdle
    /\ directory \in SUBSET InitialNames
    /\ corrupt \in SUBSET {n \in directory : n.nc /\ n.depth = 0}
    /\ nc_files = <<>> /\ nc_k = 0
    /\ processed_files = <<>> /\ first_files = <<>>
    /\ written = <<>>
    /\ run = 1

\* lines 117-122: no input file, the empty list is returned
ProcessNoInput ==
    /\ pc = "process_list"
    /\ {n \in directory : IsInput(n)} = {}
    /\ pc' = "process_returned"
    /\ UNCHANGED <<directory, nc_files, nc_k, processed_files, first_files,
                   written, run>>
    /\ ProcessFrame

\* lines 117-128: the sorted inputs, the loop starts
ProcessList ==
    /\ pc = "process_list"
    /\ {n \in directory : IsInput(n)} # {}
    /\ nc_files' = SortedNames({n \in directory : IsInput(n)})
    /\ nc_k' = 1
    /\ pc' = "process_loop"
    /\ UNCHANGED <<directory, processed_files, first_files, written, run>>
    /\ ProcessFrame

\* lines 35-40, 130-132: the output file exists, its path is returned
ProcessAlready ==
    /\ pc = "process_loop"
    /\ nc_k <= Len(nc_files)
    /\ OutputName(nc_files[nc_k]) \in directory
    /\ processed_files' = Append(processed_files, OutputName(nc_files[nc_k]))
    /\ nc_k' = nc_k + 1
    /\ UNCHANGED <<pc, directory, nc_files, first_files, written, run>>
    /\ ProcessFrame

\* lines 44-55, 92-94: the file cannot be processed, None is returned
ProcessFails ==
    /\ pc = "process_loop"
    /\ nc_k <= Len(nc_files)
    /\ OutputName(nc_files[nc_k]) \notin directory
    /\ nc_files[nc_k] \in corrupt
    /\ nc_k' = nc_k + 1
    /\ UNCHANGED <<pc, directory, nc_files, processed_files, first_files,
                   written, run>>
    /\ ProcessFrame

\* lines 44-90, 130-132: the daily file is written
ProcessWrite ==
    /\ pc = "process_loop"
    /\ nc_k <= Len(nc_files)
    /\ OutputName(nc_files[nc_k]) \notin directory
    /\ nc_files[nc_k] \notin corrupt
    /\ directory' = directory \cup {OutputName(nc_files[nc_k])}
    /\ written' = Append(written, [run |-> run,
                                   file |-> OutputName(nc_files[nc_k])])
    /\ processed_files' = Append(processed_files, OutputName(nc_files[nc_k]))
    /\ nc_k' = nc_k + 1
    /\ UNCHANGED <<pc, nc_files, first_files, run>>
    /\ ProcessFrame

\* lines 134-139
ProcessReturn ==
    /\ pc = "process_loop"
    /\ nc_k > Len(nc_files)
    /\ pc' = "process_returned"
    /\ UNCHANGED <<directory, nc_files, nc_k, processed_files, first_files,
                   written, run>>
    /\ ProcessFrame

\* the stage is called again over the directory the first run left
ProcessAgain ==
    /\ pc = "process_returned"
    /\ run = 1
    /\ first_files' = processed_files
    /\ run' = 2
    /\ nc_files' = <<>> /\ nc_k' = 0 /\ processed_files' = <<>>
    /\ pc' = "process_list"
    /\ UNCHANGED <<directory, written>>
    /\ ProcessFrame

NextProcess ==
    \/ ProcessNoInput \/ ProcessList \/ ProcessAlready \/ ProcessFails
    \/ ProcessWrite \/ ProcessReturn \/ ProcessAgain

SpecProcess == InitProcess /\ [][NextProcess]_vars

(***************************************************************************)
(* The engine as a whole: any one of its functions is called               *)
(***************************************************************************)
Init ==
    \/ InitRegime \/ InitTraj \/ InitClassify \/ InitEpisodes
    \/ InitHotspots \/ InitSources \/ InitCluster \/ InitMain
    \/ InitTrajMain \/ InitRun \/ InitProcess

Next ==
    \/ NextRegime \/ NextTraj \/ NextClassify \/ NextEpisodes
    \/ NextHotspots \/ NextSources \/ NextCluster \/ NextMain
    \/ NextTrajMain \/ NextRun \/ NextProcess

Spec == Init /\ [][Next]_vars

\* the field is the same wind (u, v) at all times and cells
ConstantField(u, v) ==
    \A t \in 1..Len(era5_data.wind) :
        \A i \in 1..Len(GridLat) : \A j \in 1..Len(GridLon) :
            era5_data.wind[t][i][j].u = u /\ era5_data.wind[t][i][j].v = v

\* no step of the call raises
NoStepRaises ==
    ~HasDuplicates(era5_data.time) /\ raise_step = -1

\* the call returned for the constant field u = 0, v = -10 m/s, 12 hours back
ConstantNortherlyRun ==
    /\ pc = "traj_done" /\ ConstantField(0, -10000)
    /\ hours_back = 12 /\ NoStepRaises

\* C6 as claimed: under the constant field u = 0, v = -10 m/s a 12-hour
\* back-trajectory has two waypoints that move strictly southward
C6_MovesSouthward ==
    ConstantNortherlyRun =>
        /\ Len(trajectory) = 2
        /\ trajectory[1].lat < start_lat
        /\ trajectory[2].lat < trajectory[1].lat

\* C6 amended: under the constant field u = 0, v = -10 m/s a 12-hour
\* back-trajectory has two waypoints that move strictly northward (upwind):
\* each latitude is above the one before
C6_MovesNorthward ==
    ConstantNortherlyRun =>
        /\ Len(trajectory) = 2
        /\ trajectory[1].lat > start_lat
        /\ trajectory[2].lat > trajectory[1].lat

C6_Witness ==
    ConstantNortherlyRun /\ Len(trajectory) = 2

\* the hour of the first step whose sampling raises, -1 when none does
FirstRaise ==
    IF hours_back > 0 /\ HasDuplicates(era5_data.time) THEN 0
    ELSE IF raise_step >= 0 /\ raise_step < hours_back THEN raise_step
    ELSE -1

\* C7: the function always returns; when the sampling of step k raises it
\* returns exactly the waypoints of steps 0..k-1 as those steps produced
\* them, with nothing appended for step k or any later step
C7_TruncatesAtFailure ==
    /\ pc \in {"traj_loop", "traj_done"}
    /\ (pc = "traj_done" /\ FirstRaise >= 0) =>
          trajectory =
              SubSeq(calculate_back_trajectory(era5_data, start_lon, start_lat,
                                               start_time, hours_back, -1),
                     1, FirstRaise \div range_step)

\* the sampling of the second step raised and one waypoint is returned
C7_Witness ==
    /\ pc = "traj_done" /\ FirstRaise = 6 /\ Len(trajectory) = 1

\* C8 as claimed: a step whose requested time lies outside the time coverage
\* of the field stops the integration, so no returned waypoint carries a
\* time before the first or after the last timestamp of the field
C8_StopsOutsideCoverage ==
    pc = "traj_done" =>
        \A i \in 1..Len(trajectory) :
            /\ trajectory[i].time >= era5_data.time[1]
            /\ trajectory[i].time <= era5_data.time[Len(era5_data.time)]

\* ceil(hours_back / 6), 0 when hours_back <= 0
CeilSteps(hb) == IF hb <= 0 THEN 0 ELSE (hb + 5) \div 6

\* C9: the trajectory never has more than ceil(hours_back / 6) waypoints; it
\* is returned with exactly that many when no step raises, and with none
\* when hours_back <= 0
C9_LengthBound ==
    /\ Len(trajectory) <= CeilSteps(hours_back)
    /\ (pc = "traj_done" /\ FirstRaise = -1) =>
          Len(trajectory) = CeilSteps(hours_back)
    /\ hours_back <= 0 => Len(trajectory) = 0

\* 13 hours back without failure: three waypoints
C9_Witness ==
    /\ pc = "traj_done" /\ hours_back = 13 /\ FirstRaise = -1
    /\ Len(trajectory) = 3

\* record i of the classified series has wind data for its month
HasWind(i) == result[i].u_wind # NaN /\ result[i].v_wind # NaN

\* the grid row and column nearest to the reference point
RefRow ==
    CHOOSE i \in 1..Len(GridLat) : \A j \in 1..Len(GridLat) :
        Abs(GridLat[i] - DELHI_CENTER.lat) <= Abs(GridLat[j] - DELHI_CENTER.lat)
RefCol ==
    CHOOSE i \in 1..Len(GridLon) : \A j \in 1..Len(GridLon) :
        Abs(GridLon[i] - DELHI_CENTER.lon) <= Abs(GridLon[j] - DELHI_CENTER.lon)

\* the days of the field in month m
DaysIn(m) == {t \in 1..Len(era5_data.time) : MonthOf(era5_data.time[t]) = m}

RECURSIVE MonthSum(_, _, _)
\* the sum of component comp ("u" or "v") at the reference cell over the
\* days 1..t that fall in month m
MonthSum(m, t, comp) ==
    IF t = 0 THEN 0
    ELSE MonthSum(m, t - 1, comp)
         + (IF t \in DaysIn(m) THEN era5_data.wind[t][RefRow][RefCol][comp]
            ELSE 0)

\* the regime of the vector mean of month m, in exact arithmetic on the sums:
\* |sum| < n * threshold is 'local', else the bucket of the summed vector
AveragedRegime(m) ==
    LET n == Cardinality(DaysIn(m))
        su == MonthSum(m, Len(era5_data.time), "u")
        sv == MonthSum(m, Len(era5_data.time), "v")
    IN IF su * su + sv * sv < (n * wind_speed_threshold) * (n * wind_speed_threshold)
       THEN "local"
       ELSE ExactBucket(su, sv)

\* C3 as claimed: a record whose month has no wind data (u and v missing
\* after the join) gets a missing regime, none of the six regime labels
C3_MissingWindMissingRegime ==
    pc = "classify_done" =>
        \A i \in 1..Len(result) :
            ~HasWind(i) => result[i].regime \notin Regimes

\* C4: the regime of every record with wind data is the regime of the wind
\* vector averaged over the record's month at the grid cell nearest the
\* reference point (average, then classify), whatever the per-day speeds,
\* directions and regimes are
C4_AverageThenClassify ==
    pc = "classify_done" =>
        \A i \in 1..Len(result) :
            HasWind(i) =>
                result[i].regime = AveragedRegime(MonthOf(result[i].date))

\* a month of two days whose averaged vector is calm while the average of
\* the daily speeds is at or above the threshold
C4_Witness ==
    /\ pc = "classify_done"
    /\ \E i \in 1..Len(result) :
          /\ HasWind(i)
          /\ Cardinality(DaysIn(MonthOf(result[i].date))) >= 2
          /\ result[i].regime = "local"
          /\ FGe(result[i].wind_speed, wind_speed_threshold)

\* C5 as claimed: on every classified record with wind data the regime is
\* 'local' exactly when the record's wind_speed is below the threshold, and
\* otherwise the record's wind_direction lies in the bucket of its regime
C5_FieldsMatchRegime ==
    pc = "classify_done" =>
        \A i \in 1..Len(result) :
            HasWind(i) =>
                /\ (result[i].regime = "local") <=>
                       FLt(result[i].wind_speed, wind_speed_threshold)
                /\ result[i].regime # "local" =>
                       DirectionRegime(result[i].wind_direction) = result[i].regime

\* the number of present values of the input series below / at most x
CountBelow(x) ==
    Cardinality({i \in 1..Len(pollutant_data) :
        pollutant_data[i].value # NaN /\ pollutant_data[i].value < x})
CountAtMost(x) ==
    Cardinality({i \in 1..Len(pollutant_data) :
        pollutant_data[i].value # NaN /\ pollutant_data[i].value <= x})

\* the number of present values of the input series
PresentCount ==
    Cardinality({i \in 1..Len(pollutant_data) : pollutant_data[i].value # NaN})

\* the k-th smallest present value (k from 1), by counting
KthSmallest(k) ==
    CHOOSE x \in {pollutant_data[i].value : i \in 1..Len(pollutant_data)} :
        x # NaN /\ CountBelow(x) < k /\ k <= CountAtMost(x)

\* 100 x the q-th percentile of the present values, from the order statistics
OrderPercentile100(q) ==
    LET n == PresentCount
        pos == q * (n - 1)
        k == pos \div 100 + 1
    IN IF pos % 100 = 0 THEN 100 * KthSmallest(k)
       ELSE 100 * KthSmallest(k)
            + (pos % 100) * (KthSmallest(k + 1) - KthSmallest(k))

\* record i of the input series is present and at or above the percentile
AtOrAboveThreshold(i) ==
    /\ pollutant_data[i].value # NaN
    /\ 100 * pollutant_data[i].value >= OrderPercentile100(threshold_percentile)

\* C10: the rows returned are exactly the input records whose value is
\* present and >= the percentile of the present values, in input order: none
\* with a missing value or a value below the threshold, none at or above the
\* threshold left out
C10_ExactlyAtOrAbove ==
    /\ (pc = "episodes_done" /\ PresentCount = 0) => severe_days = <<>>
    /\ (pc = "episodes_done" /\ PresentCount > 0) =>
          LET keep == SelectSeq([i \in 1..Len(pollutant_data) |-> i],
                                LAMBDA i : AtOrAboveThreshold(i))
          IN /\ Len(severe_days) = Len(keep)
             /\ \A j \in 1..Len(keep) :
                   /\ severe_days[j].date = pollutant_data[keep[j]].date
                   /\ severe_days[j].value = pollutant_data[keep[j]].value

\* a run that kept a record equal to the threshold and dropped both a lower
\* and a missing one
C10_Witness ==
    /\ pc = "episodes_done"
    /\ Len(severe_days) = 1
    /\ 100 * severe_days[1].value = threshold
    /\ \E i \in 1..Len(pollutant_data) : pollutant_data[i].value = NaN
    /\ \E i \in 1..Len(pollutant_data) :
          pollutant_data[i].value # NaN /\ 100 * pollutant_data[i].value < threshold

\* the largest present value of the input series
MaxPresent ==
    CHOOSE x \in {pollutant_data[i].value : i \in 1..Len(pollutant_data)} :
        /\ x # NaN
        /\ \A i \in 1..Len(pollutant_data) :
              pollutant_data[i].value # NaN => pollutant_data[i].value <= x

\* C11: with percentile = 100 the rows returned are exactly the records
\* whose value equals the largest present value of the series, all of them
\* when the maximum is tied, in input order, and no other record
C11_OnlyTheMaximum ==
    (pc = "episodes_done" /\ threshold_percentile = 100 /\ PresentCount > 0) =>
        LET keep == SelectSeq([i \in 1..Len(pollutant_data) |-> i],
                        LAMBDA i : pollutant_data[i].value = MaxPresent)
        IN /\ Len(severe_days) = Len(keep)
           /\ \A j \in 1..Len(keep) :
                 /\ severe_days[j].date = pollutant_data[keep[j]].date
                 /\ severe_days[j].value = MaxPresent

\* percentile 100 on a series with a tied maximum and a lower record: both
\* maxima are returned
C11_Witness ==
    /\ pc = "episodes_done" /\ threshold_percentile = 100
    /\ Len(severe_days) = 2
    /\ severe_days[1].value = severe_days[2].value
    /\ \E i \in 1..Len(pollutant_data) :
          /\ pollutant_data[i].value # NaN
          /\ pollutant_data[i].value < severe_days[1].value

\* analyze_severe_episodes is running or has returned
InEpisodes == pc \in {"episodes_select", "episodes_loop", "episodes_done"}

\* C12: when the series has no present value (no record, or every value
\* missing) the call goes from its start straight to its return, the result
\* is empty, and the trajectory loop is never entered (no threshold is
\* computed, no row is selected, the loop position stays 0)
C12_EmptyWithoutTrajectory ==
    (InEpisodes /\ PresentCount = 0) =>
        /\ pc \in {"episodes_select", "episodes_done"}
        /\ severe_days = <<>>
        /\ episode = 0
        /\ threshold = NaN

\* the call returned for a series whose records all have a missing value
C12_Witness ==
    /\ pc = "episodes_done"
    /\ Len(pollutant_data) > 0
    /\ \A i \in 1..Len(pollutant_data) : pollutant_data[i].value = NaN
    /\ severe_days = <<>>

\* the call returned for a series without records
C12_WitnessNoRecords ==
    pc = "episodes_done" /\ pollutant_data = <<>> /\ severe_days = <<>>

\* the 72-hour back-trajectory from the reference center at the timestamp of
\* the returned row j
EpisodePath(j) ==
    calculate_back_trajectory(era5_data, DELHI_CENTER.lon, DELHI_CENTER.lat,
                              severe_days[j].date, 72, raise_step)

\* C13: for every returned episode whose 72-hour back-trajectory from the
\* reference center at the record's timestamp is non-empty, origin_lon and
\* origin_lat are the coordinates of the last waypoint of that trajectory
\* (also when it was truncated), and trajectory_distance is
\* 111 x sqrt(dlon^2 + dlat^2) between that waypoint and the center
C13_TerminalIsLastWaypoint ==
    pc = "episodes_done" =>
        \A j \in 1..Len(severe_days) :
            EpisodePath(j) # <<>> =>
                LET last == EpisodePath(j)[Len(EpisodePath(j))]
                    dlon == last.lon - 77209
                    dlat == last.lat - 28614
                IN /\ severe_days[j].origin_lon = last.lon
                   /\ severe_days[j].origin_lat = last.lat
                   /\ severe_days[j].trajectory_distance =
                          111 * Sqrt(dlon * dlon + dlat * dlat)

\* an episode with a full trajectory of twelve waypoints that ends away from
\* the first waypoint
C13_Witness ==
    /\ pc = "episodes_done"
    /\ \E j \in 1..Len(severe_days) :
          /\ Len(EpisodePath(j)) = 12
          /\ EpisodePath(j)[12].lat # EpisodePath(j)[1].lat
          /\ severe_days[j].origin_lat = EpisodePath(j)[12].lat
          /\ severe_days[j].trajectory_distance > 0

\* an episode whose trajectory was truncated after its first waypoint
C13_WitnessTruncated ==
    /\ pc = "episodes_done"
    /\ \E j \in 1..Len(severe_days) :
          /\ Len(EpisodePath(j)) = 1
          /\ severe_days[j].origin_lat = EpisodePath(j)[1].lat

\* the cells of the composite grid, as (lat index, lon index)
Cells == (1..Len(HotLat)) \X (1..Len(HotLon))

RECURSIVE PresentSum(_, _)
\* the sum of the present values among the first t values of a cell
PresentSum(series, t) ==
    IF t = 0 THEN 0
    ELSE PresentSum(series, t - 1) + (IF series[t] = NaN THEN 0 ELSE series[t])

\* the temporal mean of cell c of the composite (x MeanScale), by counting
TemporalMean(c) ==
    LET series == composite.values[c[1]][c[2]]
        n == Cardinality({t \in 1..Len(series) : series[t] # NaN})
    IN IF n = 0 THEN NaN
       ELSE (PresentSum(series, Len(series)) * MeanScale) \div n

\* the number of cells with a present mean below / at most x, and in all
CellsBelow(x) ==
    Cardinality({c \in Cells : TemporalMean(c) # NaN /\ TemporalMean(c) < x})
CellsAtMost(x) ==
    Cardinality({c \in Cells : TemporalMean(c) # NaN /\ TemporalMean(c) <= x})
PresentCells ==
    Cardinality({c \in Cells : TemporalMean(c) # NaN})

\* the k-th smallest present cell mean (k from 1), by counting
KthCellMean(k) ==
    CHOOSE x \in {TemporalMean(c) : c \in Cells} :
        x # NaN /\ CellsBelow(x) < k /\ k <= CellsAtMost(x)

\* 100 x the q-th percentile of the present cell means, from the order
\* statistics
CellPercentile100(q) ==
    LET pos == q * (PresentCells - 1)
        k == pos \div 100 + 1
    IN IF pos % 100 = 0 THEN 100 * KthCellMean(k)
       ELSE 100 * KthCellMean(k)
            + (pos % 100) * (KthCellMean(k + 1) - KthCellMean(k))

\* calculate_persistent_hotspots returned a mask
MaskReturned == pc = "hotspots_done" /\ hotspots # NoMask

C16_NoneAtHundred ==
    (MaskReturned /\ percentile_threshold = 100) =>
        \A c \in Cells : hotspots[c[1]][c[2]] = 0

\* percentile 100 on a composite whose present means differ: the cell with
\* the larger mean is not marked
C16_Witness ==
    /\ MaskReturned /\ percentile_threshold = 100
    /\ \E c, d \in Cells :
          /\ TemporalMean(c) # NaN /\ TemporalMean(d) # NaN
          /\ TemporalMean(d) < TemporalMean(c)
          /\ hotspots[c[1]][c[2]] = 0

\* the great-circle distance in metres between two (lon, lat) points in
\* units of 0.0001 degree: the angle in millidegrees (small-angle form, the
\* longitude difference shortened by the cosine of the latitude) at 111.2 m
\* per millidegree
GreatCircleMetres(p, q) ==
    LET dlat == Abs(p[2] - q[2]) \div 10
        dlon == Abs(p[1] - q[1]) \div 10
        east == ((dlon * CosMilli(p[2] \div 10)) \div 1000)
                * ((dlon * CosMilli(q[2] \div 10)) \div 1000)
    IN (Sqrt(dlat * dlat + east) * 1112) \div 10

\* point i is farther than eps_km from every other point
Isolated(i) ==
    \A j \in 1..Len(hotspot_coords) :
        j # i => GreatCircleMetres(hotspot_coords[i], hotspot_coords[j])
                     > eps_km * 1000

\* C17 as claimed: every point whose great-circle distance to every other
\* point is greater than eps_km gets the noise label -1
C17_IsolatedIsNoise ==
    pc = "cluster_done" =>
        \A i \in 1..Len(hotspot_coords) : Isolated(i) => labels[i] = -1

\* the columns of the table that identify_source_regions builds
SourceColumns ==
    {"lon", "lat", "source_type", "distance_to_known", "known_source_name"}

\* C18 as claimed: every row of the hotspot table written by the hotspot
\* stage carries a cluster id, a column beside those of the source mapping
\* whose values are the labels of the clustering step
C18_RowsCarryClusterId ==
    pc \in {"main_seasonal", "main_done", "main_raised"} =>
        /\ Len(labels) = Len(output_file)
        /\ \A r \in 1..Len(output_file) :
              DOMAIN output_file[r] \ SourceColumns # {}

\* the known sources as (category position, position in the category)
SourcePositions ==
    UNION {{<<c, i>> : i \in 1..Len(KNOWN_SOURCES[c].sources)} :
              c \in 1..Len(KNOWN_SOURCES)}

SourceAt(pos) == KNOWN_SOURCES[pos[1]].sources[pos[2]]

\* the square of the planar degree distance between a row and a source
DegreeSquare(row, pos) ==
    (row.lon - SourceAt(pos).lon) * (row.lon - SourceAt(pos).lon)
    + (row.lat - SourceAt(pos).lat) * (row.lat - SourceAt(pos).lat)

\* sqrt(d2) * 111 km < 10 km for d2 in squared units of 0.0001 degree, that
\* is 111^2 * d2 < 10^10, without rounding: both sides are divided by 10^4
WithinTenKm(row, pos) ==
    LET d2 == DegreeSquare(row, pos)
    IN 12321 * (d2 \div 10000) + (12321 * (d2 % 10000)) \div 10000 < 1000000

\* the sources in range of a row
InRangeOf(row) == {pos \in SourcePositions : WithinTenKm(row, pos)}

\* pos comes no later than other in the enumeration: categories in
\* configuration order, sources in list order
NoLater(pos, other) ==
    pos[1] < other[1] \/ (pos[1] = other[1] /\ pos[2] <= other[2])

\* the number of cells the mask marks
MarkedCells == Cardinality({c \in Cells : hotspots[c[1]][c[2]] = 1})

\* C19: the table has one row per hotspot cell; a row has the category of a
\* known source exactly when some known source lies within 10 km of the cell
\* (planar degree distance x 111, strictly below 10), and that category is
\* the category of a source in range; a row without a source within 10 km
\* keeps source_type 'unknown' and a missing distance
C19_CategoryIffInRange ==
    pc = "sources_done" =>
        /\ Len(source_df) = MarkedCells
        /\ \A r \in 1..Len(source_df) :
              /\ hotspots[CHOOSE i \in 1..Len(HotLat) :
                              HotLat[i] = source_df[r].lat]
                         [CHOOSE j \in 1..Len(HotLon) :
                              HotLon[j] = source_df[r].lon] = 1
              /\ source_df[r].source_type # "unknown" <=>
                     InRangeOf(source_df[r]) # {}
              /\ InRangeOf(source_df[r]) # {} =>
                     \E pos \in InRangeOf(source_df[r]) :
                         source_df[r].source_type =
                             KNOWN_SOURCES[pos[1]].source_type
              /\ InRangeOf(source_df[r]) = {} =>
                     /\ source_df[r].source_type = "unknown"
                     /\ source_df[r].distance_to_known = NaN

\* a table with a row that has exactly one source in range and took its
\* category, and a row without a source in range
C19_Witness ==
    /\ pc = "sources_done"
    /\ \E r \in 1..Len(source_df) :
          /\ Cardinality(InRangeOf(source_df[r])) = 1
          /\ source_df[r].source_type = "power_plants"
    /\ \E r \in 1..Len(source_df) :
          /\ InRangeOf(source_df[r]) = {}
          /\ source_df[r].source_type = "unknown"
          /\ source_df[r].distance_to_known = NaN

\* the last source in range of a row, in enumeration order
LastInRange(row) ==
    CHOOSE pos \in InRangeOf(row) :
        \A other \in InRangeOf(row) : NoLater(other, pos)

\* C20: when known sources are in range of a cell, its source_type,
\* known_source_name and distance_to_known all come from the last source in
\* range in enumeration order, also when an earlier one is nearer
C20_LastInRangeWins ==
    pc = "sources_done" =>
        \A r \in 1..Len(source_df) :
            InRangeOf(source_df[r]) # {} =>
                LET last == LastInRange(source_df[r])
                IN /\ source_df[r].source_type =
                          KNOWN_SOURCES[last[1]].source_type
                   /\ source_df[r].known_source_name = SourceAt(last).name
                   /\ source_df[r].distance_to_known =
                          111 * Sqrt(DegreeSquare(source_df[r], last))

\* a row with several sources in range, one of another category that is
\* earlier in the enumeration and strictly nearer than the last one
C20_Witness ==
    /\ pc = "sources_done"
    /\ \E r \in 1..Len(source_df) :
          /\ Cardinality(InRangeOf(source_df[r])) > 1
          /\ \E pos \in InRangeOf(source_df[r]) :
                /\ pos[1] < LastInRange(source_df[r])[1]
                /\ DegreeSquare(source_df[r], pos)
                       < DegreeSquare(source_df[r], LastInRange(source_df[r]))
          /\ source_df[r].known_source_name =
                 SourceAt(LastInRange(source_df[r])).name

\* the position held before waypoint i: the start point, or waypoint i - 1
PriorLon(i) == IF i = 1 THEN start_lon ELSE trajectory[i - 1].lon
PriorLat(i) == IF i = 1 THEN start_lat ELSE trajectory[i - 1].lat

\* waypoint i and the position before it hold no missing value
StepDefined(i) ==
    /\ PriorLon(i) # NaN /\ PriorLat(i) # NaN
    /\ trajectory[i].u_wind # NaN /\ trajectory[i].v_wind # NaN

\* C26: waypoint k (the k+1-th of the list) carries the timestamp
\* start_time - 6k hours and the wind sampled at that time at the position
\* held before the step; its position is that prior position moved by
\* dlon = -u*21600/(111320*cos(prior latitude)) and dlat = -v*21600/111320
C26_WaypointOfStep ==
    \A i \in 1..Len(trajectory) :
        LET wind == SelNearest(era5_data, start_time - 6 * (i - 1),
                               PriorLat(i), PriorLon(i))
        IN /\ trajectory[i].time = start_time - 6 * (i - 1)
           /\ trajectory[i].u_wind = wind.u
           /\ trajectory[i].v_wind = wind.v
           /\ StepDefined(i) =>
                 /\ trajectory[i].lon =
                        PriorLon(i)
                        - RoundDiv(wind.u * 21600,
                                   (111320 * CosMilli(PriorLat(i))) \div 1000)
                 /\ trajectory[i].lat =
                        PriorLat(i) - RoundDiv(wind.v * 21600, 111320)

\* a returned trajectory whose second step has a wind with both components
\* and a cosine of the latitude that the step changes
C26_Witness ==
    /\ pc = "traj_done" /\ Len(trajectory) >= 2 /\ StepDefined(2)
    /\ trajectory[2].u_wind # 0 /\ trajectory[2].v_wind # 0
    /\ CosMilli(trajectory[1].lat) # CosMilli(trajectory[2].lat)
    /\ trajectory[2].lon # trajectory[1].lon

\* C27 as claimed: every waypoint of a returned trajectory has defined
\* longitude, latitude, u and v
C27_WaypointsDefined ==
    pc = "traj_done" =>
        \A i \in 1..Len(trajectory) :
            /\ trajectory[i].lon # NaN /\ trajectory[i].lat # NaN
            /\ trajectory[i].u_wind # NaN /\ trajectory[i].v_wind # NaN

C29_WitnessTruncated ==
    /\ pc = "traj_done" /\ Len(trajectory) = 1 /\ hours_back > 6
    /\ trajectory =
           calculate_back_trajectory_simple(era5_data, start_lon, start_lat,
               start_time, hours_back, raise_step)

\* the fields the classification adds to a record
AddedFields ==
    {"u_wind", "v_wind", "wind_speed", "wind_direction",
     "regime", "is_local", "is_advected"}

\* the classified series has one record per input record, in the input's
\* order, with the input's date and value and the added fields only
SameRecords ==
    /\ Len(result) = Len(pollutant_data)
    /\ \A i \in 1..Len(result) :
           /\ result[i].date = pollutant_data[i].date
           /\ result[i].value = pollutant_data[i].value
           /\ DOMAIN result[i] = DOMAIN pollutant_data[i] \cup AddedFields

\* C25: classify_pollution_regime returns exactly one record per input
\* record, in the same order and with the same date and value; it only adds
\* fields, and no step of it modifies its input
C25_OneRecordPerInput ==
    [][/\ pollutant_data' = pollutant_data
       /\ pc' = "classify_done" => SameRecords']_vars

\* a returned series with a record that found no wind of its month, a record
\* that found one, and a record whose value is missing
C25_Witness ==
    /\ pc = "classify_done" /\ Len(pollutant_data) = NMonths
    /\ SameRecords
    /\ \E i \in 1..Len(result) : result[i].u_wind = NaN
    /\ \E i \in 1..Len(result) : result[i].u_wind # NaN
    /\ \E i \in 1..Len(result) : result[i].value = NaN

\* the files of the directory that parse, in the order of their names
ParsedFiles == SelectSeq(daily_files, LAMBDA f : f.ok)

\* the loader returned a field
FieldLoaded == pc \in {"tmain_loop", "tmain_raised", "tmain_done"}

\* C21 as claimed: the timestamps of the merged field are strictly
\* increasing, without duplicates
C21_StrictlyIncreasing ==
    FieldLoaded =>
        \A i \in 1..(Len(era5_data.time) - 1) :
            era5_data.time[i] < era5_data.time[i + 1]

\* C22: a file that fails to parse is skipped and the others are merged;
\* the loader reports no field only when there is no daily file or every
\* file fails to parse, and then no pollutant is processed
C22_SkipsUnparsable ==
    /\ pc \in {"tmain_none", "tmain_returned"} =>
           /\ ParsedFiles = <<>>
           /\ era5_data = NoField /\ code = 0 /\ saved = <<>>
    /\ FieldLoaded =>
           /\ ParsedFiles # <<>>
           /\ era5_data = sortby(Concat(ParsedFiles))
    /\ pc = "tmain_files" /\ file_k > Len(daily_files) =>
           datasets = ParsedFiles

\* a field merged from a directory whose first file fails to parse, and
\* pollutants processed with it
C22_Witness ==
    /\ pc = "tmain_done" /\ Len(daily_files) = 2
    /\ ~daily_files[1].ok /\ daily_files[2].ok
    /\ era5_data.time = daily_files[2].time
    /\ saved # <<>>

\* main returned without a field because every file failed to parse
C22_WitnessAllFail ==
    /\ pc = "tmain_returned" /\ daily_files # <<>>
    /\ \E c \in 1..Len(pollutants) : ts_files[c] = "ok"
    /\ saved = <<>>

\* main returned without a field because there was no daily file
C22_WitnessNoFile ==
    /\ pc = "tmain_returned" /\ daily_files = <<>>
    /\ saved = <<>>

\* the hotspot stage ended: its loop is over, or an error ended main
HotspotStageEnded == pc \in {"main_complete", "main_raised"}

\* C23 as claimed: a failure while processing one pollutant never prevents
\* the later pollutants from being processed, so the stage ends only after
\* the last pollutant of its list
C23_LaterPollutantsProcessed ==
    HotspotStageEnded => code = Len(hotspot_pollutants)

\* the stages entered so far, in the order they were entered
StagesRun == SelectSeq(log, LAMBDA x : x \in StageNames)

InLog(x) == \E k \in 1..Len(log) : log[k] = x

\* the position of a stage in the order of the pipeline
StageIndex(stage) == CHOOSE i \in 1..Len(Stages) : Stages[i] = stage

\* C24 as claimed: when the underlying step of a stage that ran raises, the
\* run raises: the stage is not reported complete, no later stage runs and
\* main does not return normally
C24_FailedStageRaises ==
    \A stage \in failing :
        InLog(stage) =>
            /\ ~InLog(Complete(stage))
            /\ \A i \in 1..Len(Stages) :
                   i > StageIndex(stage) => ~InLog(Stages[i])
            /\ pc \notin {"run_returned", "run_completed"}

\* C28: with --step s, s not all, main runs exactly stage s and returns
\* without reporting the pipeline complete; with --step all it runs setup,
\* download, process, analyze and visualize once each in this order and
\* only then reports the pipeline complete
C28_StepSelectsStages ==
    /\ pc = "run_returned" =>
           /\ step # "all"
           /\ StagesRun = <<step>>
    /\ pc = "run_completed" =>
           /\ step = "all"
           /\ StagesRun = Stages
           /\ log[Len(log)] = "pipeline complete"
    /\ step # "all" =>
           /\ \A k \in 1..Len(StagesRun) : StagesRun[k] = step
           /\ Len(StagesRun) <= 1
           /\ pc \notin {"run_report", "run_completed"}
    /\ step = "all" =>
           /\ Len(StagesRun) <= Len(Stages)
           /\ \A k \in 1..Len(StagesRun) : StagesRun[k] = Stages[k]
    /\ InLog("pipeline complete") =>
           /\ StagesRun = Stages
           /\ \A k \in 1..(Len(log) - 1) : log[k] # "pipeline complete"

\* a run of the stage process alone
C28_Witness ==
    /\ pc = "run_returned" /\ step = "process"
    /\ StagesRun = <<"process">>
    /\ InLog(Complete("process")) /\ ~InLog("pipeline complete")

\* a run of every stage, reported complete
C28_WitnessAll ==
    /\ pc = "run_completed" /\ step = "all"
    /\ StagesRun = Stages /\ InLog("pipeline complete")

C30_WitnessCorrupt ==
    /\ pc = "process_returned" /\ run = 2
    /\ corrupt # {} /\ written # <<>>
    /\ \E n \in corrupt : OutputName(n) \notin directory
    /\ processed_files = first_files

====
